---- MODULE Spec2Model ----
(***************************************************************************)
(* A model of the consensus core of the blockchain node: the PBFT engine   *)
(* (src/src/consensus/pbft.rs), the view-change manager                    *)
(* (src/src/consensus/view_change.rs), leader election                     *)
(* (src/src/consensus/leader_election.rs) and the consensus orchestrator   *)
(* (src/src/consensus/mod.rs).                                             *)
(*                                                                         *)
(* Every handler is an operator from (configuration, state, input) to a    *)
(* result record [st, out, ok]: the state after the call, the messages the *)
(* call returns or broadcasts, and whether it returned Ok.  The            *)
(* specifications below drive these operators: one engine fed arbitrary    *)
(* messages, a network of four engines, two engines fed one set of votes   *)
(* in two orders, and a network of orchestrators.                          *)
(*                                                                         *)
(* Signatures are carried by the messages of the source but are never      *)
(* inspected by any handler (they are stored and constant [0; 64] when     *)
(* produced), so messages are modelled without the signature field.        *)
(***************************************************************************)
EXTENDS Integers, Sequences, FiniteSets, Bags, TLC

VARIABLES
    engine,     \* SpecEngine: the state of one PbftEngine;
                \* SpecManager: the state of one ViewChangeManager;
                \* SpecMembers: a node's configuration, PbftEngine and
                \* ViewChangeManager
    calls,      \* SpecEngine: number of calls made on the engine so far
    nodes,      \* SpecSystem: the PbftEngine of every honest validator
    net,        \* SpecSystem: the messages broadcast by honest validators
    rcvd,       \* SpecSystem: the broadcast messages already delivered;
                \* SpecDup: the Prepare votes the engine has stored
    pair,       \* SpecOrder: two PbftEngines fed the same votes
    todo,       \* SpecOrder: per engine, the votes still to deliver
    orch,       \* SpecOrch: the ConsensusEngine of every node;
                \* SpecStart, SpecView, SpecCommit: the ConsensusEngine of one node;
                \* SpecRace: the ConsensusEngine of the primary and the
                \* positions of its two tasks
    inbox,      \* SpecOrch: per node, the bag of undelivered messages
    sent,       \* SpecOrch, SpecStart: every consensus message broadcast so far;
                \* SpecRace: every Propose the primary has broadcast
    pool,       \* SpecMempool/SpecThreads: the Mempool
    last,       \* SpecMempool, SpecElection, SpecPropose, SpecCommit: the call that
                \* returned last, and what
    thr,        \* SpecThreads: per thread, its call and its position in it
    lock        \* SpecThreads: per RwLock of the Mempool, who holds it

vars == <<engine, calls, nodes, net, rcvd, pair, todo, orch, inbox, sent,
          pool, last, thr, lock>>

(***************************************************************************)
(* Bounds of the model.                                                    *)
(***************************************************************************)
MaxView == 1        \* views 0..MaxView appear in messages
MaxSeq == 1         \* sequences 0..MaxSeq appear in messages
MaxBody == 2        \* distinct block contents per proposer
MaxCalls == 6       \* calls that change the single engine, per behaviour
MaxKeep == 1        \* keep_last_n arguments 0..MaxKeep of cleanup_old_logs
MaxSysView == 1     \* SpecSystem: views 0..MaxSysView
MaxSysBody == 1     \* SpecSystem: distinct block contents per proposer
MaxVotes == 4       \* SpecOrder: size of the fixed set of votes
MaxPoolSize == 3    \* max_size of the MempoolConfig of SpecMempool
MaxPerAccount == 2  \* its max_per_account
MinFee == 1         \* its min_fee
MaxTxSize == 2      \* its max_tx_size
MaxInsertions == 4  \* add_transaction admits while insertion_counter is below
MaxCount == 2       \* get_next_batch is called with max_count in 1..MaxCount
MaxBytes == 3       \* and with max_size 1 or MaxBytes
MaxThreadPool == 3  \* max_size of the MempoolConfig of SpecThreads
MaxThreadAccount == 1   \* its max_per_account
MaxElectionSize == 10   \* SpecElection: validator sets of 0..MaxElectionSize members
MaxElectionView == 12   \* SpecElection: views 0..MaxElectionView
MaxViewChange == 2      \* SpecManager/SpecView: views 0..MaxViewChange
MaxRejected == 2        \* a mempool rejects at most this many transactions
MaxCommitRound == 1     \* SpecCommit: rounds 0..MaxCommitRound appear in messages

Views == 0..MaxView
Seqs == 0..MaxSeq
Bodies == 1..MaxBody

(***************************************************************************)
(* Generic helpers.                                                        *)
(***************************************************************************)
Range(s) == {s[i] : i \in DOMAIN s}

EmptyMap == [x \in {} |-> 0]

\* HashMap::insert: the value stored under k is replaced
Put(f, k, v) == [x \in (DOMAIN f) \cup {k} |-> IF x = k THEN v ELSE f[x]]

\* HashMap::remove / retain
Restrict(f, S) == [x \in (DOMAIN f) \cap S |-> f[x]]

(***************************************************************************)
(* Configuration and data.                                                 *)
(***************************************************************************)
\* the validator set of the tests: four validators, in round-robin order
validator_set == <<"v1", "v2", "v3", "v4">>

Validators == Range(validator_set)

\* a node id that is not in the validator set
Outsider == "x"

NodeIds == Validators \cup {Outsider}

ConsensusConfig(id, isval) ==
    [node_id |-> id, is_validator |-> isval, validator_set |-> validator_set,
     max_block_size |-> 10485760, max_transactions_per_block |-> 1000]

\* A block as the PbftEngine sees it: the engine reads the proposer of the
\* header and hashes the whole block; body stands for the rest of the block.
Block(p, b) == [proposer |-> p, body |-> b]

\* the proposers of blocks: the primaries of views 0 and 1 (each is the wrong
\* proposer in the other view)
Proposers == {"v1", "v2"}

Blocks == {Block(p, b) : p \in Proposers, b \in Bodies}

\* Block::hash: SHA-256 of the serialized block, taken to be collision free;
\* the digest of a block is a value determined by all of its fields.
BlockHash(block) == <<"sha256", block>>

Hashes == {BlockHash(b) : b \in Blocks}

\* ConsensusMessage variants
Propose(block, round, view) ==
    [type |-> "Propose", block |-> block, round |-> round, view |-> view]

Vote(block_hash, vote_type, round, view, validator_id) ==
    [type |-> "Vote", block_hash |-> block_hash, vote_type |-> vote_type,
     round |-> round, view |-> view, validator_id |-> validator_id]

ViewChange(new_view, validator_id) ==
    [type |-> "ViewChange", new_view |-> new_view, validator_id |-> validator_id]

NewView(view, view_change_messages) ==
    [type |-> "NewView", view |-> view,
     view_change_messages |-> view_change_messages]

(***************************************************************************)
(* PbftEngine                                                              *)
(***************************************************************************)
\* PbftEngine::new
PbftEngineNew ==
    [current_view |-> 0,
     current_sequence |-> 0,
     message_log |-> EmptyMap,
     prepared_certificates |-> {},
     committed_certificates |-> {},
     view_change_votes |-> EmptyMap]

\* the result of a handler: state after the call, returned messages, Ok/Err
Ret(st, out, ok) == [st |-> st, out |-> out, ok |-> ok]

is_primary(cfg, node_id, view) ==
    IF Len(cfg.validator_set) = 0 THEN FALSE
    ELSE cfg.validator_set[(view % Len(cfg.validator_set)) + 1] = node_id

\* a threshold that forgets the "+ 1": 2N/3 rounded down
byzantine_threshold_no_plus_one(cfg) == (Len(cfg.validator_set) * 2) \div 3

byzantine_threshold(cfg) == ((Len(cfg.validator_set) * 2) \div 3) + 1

IsVoteOf(msg, vote_type) == msg.type = "Vote" /\ msg.vote_type = vote_type

\* a count that forgets to compare the entry's pinned hash with the vote's
count_prepare_messages_any_hash(e, view, sequence, block_hash) ==
    LET log_key == <<view, sequence>> IN
    IF log_key \in DOMAIN e.message_log
    THEN Cardinality({n \in DOMAIN e.message_log[log_key].messages :
                        IsVoteOf(e.message_log[log_key].messages[n], "Prepare")})
    ELSE 0

count_prepare_messages(e, view, sequence, block_hash) ==
    LET log_key == <<view, sequence>> IN
    IF log_key \in DOMAIN e.message_log
       /\ e.message_log[log_key].block_hash = block_hash
    THEN Cardinality({n \in DOMAIN e.message_log[log_key].messages :
                        IsVoteOf(e.message_log[log_key].messages[n], "Prepare")})
    ELSE 0

count_commit_messages(e, view, sequence, block_hash) ==
    LET log_key == <<view, sequence>> IN
    IF log_key \in DOMAIN e.message_log
       /\ e.message_log[log_key].block_hash = block_hash
    THEN Cardinality({n \in DOMAIN e.message_log[log_key].messages :
                        IsVoteOf(e.message_log[log_key].messages[n], "Commit")})
    ELSE 0

\* the "store the vote" block shared by handle_prepare and handle_commit:
\* the vote replaces whatever message the validator had in the entry
StoreVote(e, block_hash, vote_type, sequence, view, validator_id) ==
    LET log_key == <<view, sequence>> IN
    IF log_key \in DOMAIN e.message_log
       /\ e.message_log[log_key].block_hash = block_hash
    THEN [e EXCEPT !.message_log[log_key] =
            [@ EXCEPT !.messages =
                        Put(@, validator_id,
                            Vote(block_hash, vote_type, sequence, view, validator_id)),
                      !.phase = vote_type]]
    ELSE e

handle_pre_prepare(cfg, e, block, sequence, view) ==
    IF view # e.current_view THEN Ret(e, <<>>, TRUE)
    ELSE IF ~is_primary(cfg, block.proposer, view) THEN Ret(e, <<>>, FALSE)
    ELSE
      LET block_hash == BlockHash(block)
          log_key == <<view, sequence>>
          entry == IF log_key \in DOMAIN e.message_log
                   THEN e.message_log[log_key]
                   ELSE [view |-> view, sequence |-> sequence,
                         block_hash |-> block_hash, phase |-> "PrePrepare",
                         messages |-> EmptyMap]
          stored == [entry EXCEPT !.messages =
                        Put(@, block.proposer, Propose(block, sequence, view))]
          e1 == [e EXCEPT !.message_log = Put(@, log_key, stored)]
      IN IF cfg.is_validator /\ cfg.node_id # block.proposer
         THEN Ret(e1, <<Vote(block_hash, "Prepare", sequence, view, cfg.node_id)>>, TRUE)
         ELSE Ret(e1, <<>>, TRUE)

handle_prepare(cfg, e, block_hash, sequence, view, validator_id) ==
    IF view # e.current_view THEN Ret(e, <<>>, TRUE)
    ELSE IF validator_id \notin Range(cfg.validator_set) THEN Ret(e, <<>>, TRUE)
    ELSE
      LET e1 == StoreVote(e, block_hash, "Prepare", sequence, view, validator_id)
          prepare_count == count_prepare_messages(e1, view, sequence, block_hash)
          required_count == byzantine_threshold(cfg)
      IN IF prepare_count >= required_count
         THEN LET e2 == [e1 EXCEPT !.prepared_certificates =
                            @ \cup {<<view, sequence, block_hash>>}]
              IN IF cfg.is_validator
                 THEN Ret(e2, <<Vote(block_hash, "Commit", sequence, view, cfg.node_id)>>, TRUE)
                 ELSE Ret(e2, <<>>, TRUE)
         ELSE Ret(e1, <<>>, TRUE)

handle_commit(cfg, e, block_hash, sequence, view, validator_id) ==
    IF view # e.current_view THEN Ret(e, <<>>, TRUE)
    ELSE IF validator_id \notin Range(cfg.validator_set) THEN Ret(e, <<>>, TRUE)
    ELSE
      LET log_key == <<view, sequence>>
          e1 == StoreVote(e, block_hash, "Commit", sequence, view, validator_id)
          commit_count == count_commit_messages(e1, view, sequence, block_hash)
          required_count == byzantine_threshold(cfg)
      IN IF commit_count >= required_count
         THEN LET e2 == [e1 EXCEPT !.committed_certificates =
                            @ \cup {<<view, sequence, block_hash>>}]
                  e3 == IF log_key \in DOMAIN e2.message_log
                        THEN [e2 EXCEPT !.message_log[log_key].phase = "Committed"]
                        ELSE e2
                  e4 == [e3 EXCEPT !.current_sequence = sequence + 1]
              IN Ret(e4, <<>>, TRUE)
         ELSE Ret(e1, <<>>, TRUE)

handle_view_change(cfg, e, new_view, validator_id) ==
    IF validator_id \notin Range(cfg.validator_set) THEN Ret(e, <<>>, TRUE)
    ELSE
      LET votes == IF new_view \in DOMAIN e.view_change_votes
                   THEN e.view_change_votes[new_view] ELSE {}
          e1 == [e EXCEPT !.view_change_votes =
                    Put(@, new_view, votes \cup {validator_id})]
          vote_count == Cardinality(e1.view_change_votes[new_view])
          required_count == byzantine_threshold(cfg)
      IN IF vote_count >= required_count
         THEN LET e2 == [e1 EXCEPT !.current_view = new_view]
              IN IF is_primary(cfg, cfg.node_id, new_view)
                 THEN Ret(e2, <<NewView(new_view, <<>>)>>, TRUE)
                 ELSE Ret(e2, <<>>, TRUE)
         ELSE Ret(e1, <<>>, TRUE)

handle_new_view(cfg, e, view, view_change_messages) ==
    Ret([e EXCEPT !.current_view = view,
                  !.view_change_votes =
                      Restrict(@, (DOMAIN @) \ {view})],
        <<>>, TRUE)

process_message(cfg, e, message) ==
    CASE message.type = "Propose" ->
            handle_pre_prepare(cfg, e, message.block, message.round, message.view)
      [] message.type = "Vote" /\ message.vote_type = "Prepare" ->
            handle_prepare(cfg, e, message.block_hash, message.round,
                           message.view, message.validator_id)
      [] message.type = "Vote" /\ message.vote_type = "Commit" ->
            handle_commit(cfg, e, message.block_hash, message.round,
                          message.view, message.validator_id)
      [] message.type = "ViewChange" ->
            handle_view_change(cfg, e, message.new_view, message.validator_id)
      [] message.type = "NewView" ->
            handle_new_view(cfg, e, message.view, message.view_change_messages)

cleanup_old_logs(e, keep_last_n) ==
    IF e.current_sequence <= keep_last_n THEN e
    ELSE
      LET cutoff_sequence == e.current_sequence - keep_last_n IN
      [e EXCEPT
         !.message_log = Restrict(@, {k \in DOMAIN @ : k[2] >= cutoff_sequence}),
         !.prepared_certificates = {c \in @ : c[2] >= cutoff_sequence},
         !.committed_certificates = {c \in @ : c[2] >= cutoff_sequence}]

(***************************************************************************)
(* SpecEngine: one PbftEngine, the validator v3, on which process_message  *)
(* and cleanup_old_logs are called with arbitrary arguments.               *)
(***************************************************************************)
EngineCfg == ConsensusConfig("v3", TRUE)

\* the messages a caller may pass to process_message
EngineMessages ==
    {Propose(b, s, v) : b \in Blocks, s \in Seqs, v \in Views}
    \cup {Vote(h, t, s, v, n) : h \in Hashes, t \in {"Prepare", "Commit"},
                                s \in Seqs, v \in Views, n \in NodeIds}
    \cup {ViewChange(v, n) : v \in Views, n \in NodeIds}
    \cup {NewView(v, <<>>) : v \in Views}

InitEngine ==
    /\ pool = 0 /\ last = 0 /\ thr = 0 /\ lock = 0
    /\ engine = PbftEngineNew
    /\ calls = 0
    /\ nodes = 0 /\ net = 0 /\ rcvd = 0
    /\ pair = 0 /\ todo = 0
    /\ orch = 0 /\ inbox = 0 /\ sent = 0

\* calls counts the calls that changed the engine; a call that changes
\* nothing leaves the whole state as it is
Count(before, after) == IF after = before THEN calls ELSE calls + 1

ProcessMessage ==
    /\ calls < MaxCalls
    /\ \E m \in EngineMessages :
         LET r == process_message(EngineCfg, engine, m) IN
         /\ engine' = r.st
         /\ calls' = Count(engine, r.st)
    /\ UNCHANGED <<nodes, net, rcvd, pair, todo, orch, inbox, sent, pool, last, thr, lock>>

CleanupOldLogs ==
    /\ calls < MaxCalls
    /\ \E k \in 0..MaxKeep :
         /\ engine' = cleanup_old_logs(engine, k)
         /\ calls' = Count(engine, cleanup_old_logs(engine, k))
    /\ UNCHANGED <<nodes, net, rcvd, pair, todo, orch, inbox, sent, pool, last, thr, lock>>

NextEngine == ProcessMessage \/ CleanupOldLogs

SpecEngine == InitEngine /\ [][NextEngine]_vars

(***************************************************************************)
(* Claims about one PbftEngine, checked under SpecEngine.                  *)
(***************************************************************************)
\* Q = floor(2N/3) + 1 for the validator set of the configuration
Quorum == ((2 * Cardinality(Validators)) \div 3) + 1

\* the validators whose stored message in the entry at (view, sequence) is a
\* vote of the given type for the given hash
VotersIn(e, view, sequence, block_hash, vote_type) ==
    IF <<view, sequence>> \in DOMAIN e.message_log
    THEN LET msgs == e.message_log[<<view, sequence>>].messages IN
         {n \in DOMAIN msgs : /\ msgs[n].type = "Vote"
                              /\ msgs[n].vote_type = vote_type
                              /\ msgs[n].block_hash = block_hash
                              /\ msgs[n].validator_id = n}
    ELSE {}

\* C2: over any sequence of calls current_sequence never decreases, and a
\* call that changes it increases it by exactly 1.
C2_SequenceStepsByOne ==
    [][/\ engine'.current_sequence >= engine.current_sequence
       /\ engine'.current_sequence # engine.current_sequence
            => engine'.current_sequence = engine.current_sequence + 1]_vars

\* C3: a committed certificate (view, sequence, h) is recorded only by an
\* engine that already holds the prepared certificate (view, sequence, h).
C3_CommitNeedsPrepared ==
    [][\A c \in engine'.committed_certificates \ engine.committed_certificates :
          c \in engine.prepared_certificates]_vars

\* C4: every prepared certificate (view, sequence, h) has a log entry at
\* (view, sequence) that pins h, and in the step that records the
\* certificate the entry holds Prepare votes for h from at least
\* Q = floor(2N/3)+1 distinct members of the validator set.
C4_PreparedHasQuorum ==
    [][/\ \A c \in engine'.prepared_certificates :
            /\ <<c[1], c[2]>> \in DOMAIN engine'.message_log
            /\ engine'.message_log[<<c[1], c[2]>>].block_hash = c[3]
       /\ \A c \in engine'.prepared_certificates \ engine.prepared_certificates :
            LET voters == VotersIn(engine', c[1], c[2], c[3], "Prepare") IN
            /\ voters \subseteq Validators
            /\ Cardinality(voters) >= Quorum]_vars

\* C4 witness: the engine holds a prepared certificate
C4_Witness == engine.prepared_certificates # {}

\* C5: the prepared certificates never hold two entries with the same
\* (view, sequence) and different block hashes.
C5_OnePreparedHashPerSlot ==
    \A c1, c2 \in engine.prepared_certificates :
        (c1[1] = c2[1] /\ c1[2] = c2[2]) => c1[3] = c2[3]

\* C5 witness: an entry that received a Propose for a second block (the
\* stored Propose is not the pinned hash) and has a prepared certificate
C5_Witness ==
    \E k \in DOMAIN engine.message_log :
        /\ \E n \in DOMAIN engine.message_log[k].messages :
              /\ engine.message_log[k].messages[n].type = "Propose"
              /\ BlockHash(engine.message_log[k].messages[n].block)
                    # engine.message_log[k].block_hash
        /\ \E c \in engine.prepared_certificates : c[1] = k[1] /\ c[2] = k[2]

\* the place of a phase in the order PrePrepare, Prepare, Commit, Committed
PhaseRank(phase) ==
    CASE phase = "PrePrepare" -> 1
      [] phase = "Prepare" -> 2
      [] phase = "Commit" -> 3
      [] phase = "Committed" -> 4

\* C27: the phase of a log entry only moves forward in the order
\* PrePrepare, Prepare, Commit, Committed: no call sets the phase of an
\* entry to an earlier one, and an entry that reached Committed stays
\* Committed.
C27_PhaseMovesForward ==
    [][\A k \in DOMAIN engine.message_log \cap DOMAIN engine'.message_log :
         PhaseRank(engine'.message_log[k].phase)
           >= PhaseRank(engine.message_log[k].phase)]_vars

\* C10: current_view never decreases over any sequence of calls.
C10_ViewNeverDecreases ==
    [][engine'.current_view >= engine.current_view]_vars

(***************************************************************************)
(* SpecSystem: N = 4 validators, each running a PbftEngine.  v1, v3 and v4 *)
(* are honest; v2, the primary of view 1, is Byzantine (f = 1).  An honest *)
(* validator broadcasts exactly what process_message returns; the primary  *)
(* of a view, when honest, proposes one block per (view, sequence).        *)
(*                                                                         *)
(* The network is asynchronous and lossy.  Of its schedules the model      *)
(* takes these: a broadcast message is delivered, after any delay and in   *)
(* any order relative to the other messages, to all honest validators in   *)
(* one step, at most once, or it is never delivered (lost).  The           *)
(* Byzantine validator may at any time send any message it can sign as v2  *)
(* (to all honest validators).  All messages are for sequence 0.           *)
(***************************************************************************)
Byzantine == "v2"

Honest == Validators \ {Byzantine}

SysViews == 0..MaxSysView

\* the blocks of the primaries of the views
SysBlocks ==
    {Block(validator_set[(v % Len(validator_set)) + 1], b) :
        v \in SysViews, b \in 1..MaxSysBody}

\* what the Byzantine validator sends: proposals of its own blocks, its own
\* votes in any view, and, for the views after view 0, its view-change vote
\* and NewView messages (which carry no sender that handle_new_view could
\* check)
ByzantineMessages ==
    {Propose(b, 0, v) : b \in {x \in SysBlocks : x.proposer = Byzantine},
                        v \in SysViews}
    \cup {Vote(BlockHash(b), t, 0, v, Byzantine) :
            b \in SysBlocks, t \in {"Prepare", "Commit"}, v \in SysViews}
    \cup {ViewChange(v, Byzantine) : v \in SysViews \ {0}}
    \cup {NewView(v, <<>>) : v \in SysViews \ {0}}

InitSystem ==
    /\ pool = 0 /\ last = 0 /\ thr = 0 /\ lock = 0
    /\ nodes = [n \in Honest |-> PbftEngineNew]
    /\ net = {}
    /\ rcvd = {}
    /\ engine = 0 /\ calls = 0
    /\ pair = 0 /\ todo = 0
    /\ orch = 0 /\ inbox = 0 /\ sent = 0

\* every validator of S processes m; the replies are broadcast
Processed(S, m) ==
    [n \in Honest |->
        IF n \in S THEN process_message(ConsensusConfig(n, TRUE), nodes[n], m)
        ELSE Ret(nodes[n], <<>>, TRUE)]

\* the orchestrator of an honest primary proposes a block for its current
\* view, once per (view, sequence)
HonestPropose ==
    \E n \in Honest :
      /\ is_primary(ConsensusConfig(n, TRUE), n, nodes[n].current_view)
      /\ \A m \in net : ~(m.type = "Propose" /\ m.block.proposer = n
                            /\ m.view = nodes[n].current_view /\ m.round = 0)
      /\ \E b \in {x \in SysBlocks : x.proposer = n} :
           net' = net \cup {Propose(b, 0, nodes[n].current_view)}
      /\ UNCHANGED <<nodes, rcvd, engine, calls, pair, todo, orch, inbox, sent, pool, last, thr, lock>>

\* the network delivers a broadcast message to the honest validators
Deliver ==
    \E m \in net \ rcvd :
      LET r == Processed(Honest, m) IN
      /\ nodes' = [n \in Honest |-> r[n].st]
      /\ net' = net \cup UNION {Range(r[n].out) : n \in Honest}
      /\ rcvd' = rcvd \cup {m}
      /\ UNCHANGED <<engine, calls, pair, todo, orch, inbox, sent, pool, last, thr, lock>>

\* the Byzantine validator sends a message of its choice to the validators
ByzantineSend ==
    \E m \in ByzantineMessages :
      LET r == Processed(Honest, m) IN
      /\ nodes' = [n \in Honest |-> r[n].st]
      /\ net' = net \cup UNION {Range(r[n].out) : n \in Honest}
      /\ UNCHANGED <<rcvd, engine, calls, pair, todo, orch, inbox, sent, pool, last, thr, lock>>

NextSystem == HonestPropose \/ Deliver \/ ByzantineSend

SpecSystem == InitSystem /\ [][NextSystem]_vars

\* C1 (agreement): no two committed certificates recorded by honest
\* validators, on one node or on two, have the same sequence and different
\* block hashes, whatever their views.
C1_Agreement ==
    \A n1, n2 \in Honest :
      \A c1 \in nodes[n1].committed_certificates :
        \A c2 \in nodes[n2].committed_certificates :
          c1[2] = c2[2] => c1[3] = c2[3]

(***************************************************************************)
(* SpecOrder: two PbftEngines with the same configuration, both            *)
(* pre-prepared for one block at (view 0, sequence 0), are fed the same    *)
(* fixed set of Prepare and Commit votes for it, each engine in an order   *)
(* of its own.  The second engine starts when the first has finished (the  *)
(* two runs do not interact).                                              *)
(***************************************************************************)
OrderBlock == Block("v1", 1)

\* the engine after process_message(Propose{OrderBlock, round 0, view 0})
PrePrepared ==
    process_message(EngineCfg, PbftEngineNew, Propose(OrderBlock, 0, 0)).st

OrderVotes ==
    {Vote(BlockHash(OrderBlock), t, 0, 0, n) :
        t \in {"Prepare", "Commit"}, n \in Validators}

InitOrder ==
    /\ pool = 0 /\ last = 0 /\ thr = 0 /\ lock = 0
    /\ pair = [i \in {1, 2} |-> PrePrepared]
    /\ \E S \in SUBSET OrderVotes :
         /\ Cardinality(S) <= MaxVotes
         /\ todo = [i \in {1, 2} |-> S]
    /\ engine = 0 /\ calls = 0
    /\ nodes = 0 /\ net = 0 /\ rcvd = 0
    /\ orch = 0 /\ inbox = 0 /\ sent = 0

DeliverVote ==
    \E i \in {1, 2} :
      /\ i = 2 => todo[1] = {}
      /\ \E m \in todo[i] :
           /\ pair' = [pair EXCEPT ![i] = process_message(EngineCfg, @, m).st]
           /\ todo' = [todo EXCEPT ![i] = @ \ {m}]
      /\ UNCHANGED <<engine, calls, nodes, net, rcvd, orch, inbox, sent, pool, last, thr, lock>>

NextOrder == DeliverVote

SpecOrder == InitOrder /\ [][NextOrder]_vars

OrderCert == <<0, 0, BlockHash(OrderBlock)>>

\* C6: for a pre-prepared (view, sequence, hash) and a fixed set of votes,
\* whether the engine ends up holding the prepared certificate and the
\* committed certificate is the same for every delivery order.
C6_OrderIndependent ==
    (todo[1] = {} /\ todo[2] = {}) =>
        /\ (OrderCert \in pair[1].prepared_certificates)
             = (OrderCert \in pair[2].prepared_certificates)
        /\ (OrderCert \in pair[1].committed_certificates)
             = (OrderCert \in pair[2].committed_certificates)

(***************************************************************************)
(* ViewChangeManager (the manager owned by the orchestrator)               *)
(***************************************************************************)
max_timeout_ms == 60000

base_timeout_ms == 5000

ViewChangeManagerNew ==
    [current_view |-> 0,
     state |-> "Normal",
     view_change_messages |-> EmptyMap,
     new_view_messages |-> EmptyMap,
     timeout_duration |-> base_timeout_ms,
     message_sender |-> "None"]

\* ViewChangeManager::broadcast_message: the message goes out only if a
\* sender was set with set_message_sender; without one it is dropped
vcm_broadcast_message(vcm, message) ==
    IF vcm.message_sender = "None" THEN <<>> ELSE <<message>>

\* a handle_new_view that forgets to count the embedded messages
vcm_handle_new_view_any_count(cfg, vcm, view, view_change_messages) ==
    IF view <= vcm.current_view THEN Ret(vcm, <<>>, TRUE)
    ELSE IF \E msg \in Range(view_change_messages) :
               \/ msg.type # "ViewChange"
               \/ msg.new_view # view
               \/ msg.validator_id \notin Range(cfg.validator_set)
         THEN Ret(vcm, <<>>, FALSE)
    ELSE Ret([vcm EXCEPT !.current_view = view, !.state = "Normal",
                         !.timeout_duration = base_timeout_ms,
                         !.new_view_messages =
                             Put(@, view, NewView(view, view_change_messages))],
             <<>>, TRUE)

\* ViewChangeManager::update_timeout: the duration times 1.5, truncated, and
\* at most the maximum
update_timeout(vcm) ==
    LET new_duration == (vcm.timeout_duration * 3) \div 2
    IN [vcm EXCEPT !.timeout_duration =
          IF new_duration < max_timeout_ms THEN new_duration ELSE max_timeout_ms]

\* ViewChangeManager::is_new_primary
is_new_primary(cfg, view) ==
    IF Len(cfg.validator_set) = 0 THEN FALSE
    ELSE cfg.validator_set[(view % Len(cfg.validator_set)) + 1] = cfg.node_id

start_view(vcm, view) ==
    [vcm EXCEPT !.current_view = view,
                !.state = "Normal",
                !.timeout_duration = base_timeout_ms]

vcm_trigger_view_change(cfg, vcm, new_view) ==
    IF new_view <= vcm.current_view THEN Ret(vcm, <<>>, FALSE)
    ELSE
      LET message == ViewChange(new_view, cfg.node_id)
          old == IF new_view \in DOMAIN vcm.view_change_messages
                 THEN vcm.view_change_messages[new_view] ELSE EmptyMap
      IN Ret([vcm EXCEPT !.state = "ViewChanging",
                         !.view_change_messages =
                             Put(@, new_view, Put(old, cfg.node_id, message))],
             vcm_broadcast_message(vcm, message), TRUE)

\* messages.values().cloned().collect(): the stored messages as a Vec; the
\* handlers read its length and its elements, never their order
Values(cfg, msgs) ==
    LET ids == SelectSeq(cfg.validator_set, LAMBDA n : n \in DOMAIN msgs)
    IN [i \in DOMAIN ids |-> msgs[ids[i]]]

send_new_view(cfg, vcm, view) ==
    LET msgs == IF view \in DOMAIN vcm.view_change_messages
                THEN vcm.view_change_messages[view] ELSE EmptyMap
    IN IF Cardinality(DOMAIN msgs) < byzantine_threshold(cfg)
       THEN Ret(vcm, <<>>, FALSE)
       ELSE Ret(start_view(vcm, view),
                vcm_broadcast_message(vcm, NewView(view, Values(cfg, msgs))),
                TRUE)

wait_for_new_view(vcm, view) == [vcm EXCEPT !.state = "NewViewReceived"]

vcm_handle_view_change(cfg, vcm, new_view, validator_id) ==
    IF validator_id \notin Range(cfg.validator_set) THEN Ret(vcm, <<>>, TRUE)
    ELSE IF new_view <= vcm.current_view THEN Ret(vcm, <<>>, TRUE)
    ELSE
      LET old == IF new_view \in DOMAIN vcm.view_change_messages
                 THEN vcm.view_change_messages[new_view] ELSE EmptyMap
          vcm1 == [vcm EXCEPT !.view_change_messages =
                      Put(@, new_view,
                          Put(old, validator_id, ViewChange(new_view, validator_id)))]
          view_change_count == Cardinality(DOMAIN vcm1.view_change_messages[new_view])
      IN IF view_change_count >= byzantine_threshold(cfg)
         THEN IF is_new_primary(cfg, new_view)
              THEN send_new_view(cfg, vcm1, new_view)
              ELSE Ret(wait_for_new_view(vcm1, new_view), <<>>, TRUE)
         ELSE Ret(vcm1, <<>>, TRUE)

vcm_handle_new_view(cfg, vcm, view, view_change_messages) ==
    IF view <= vcm.current_view THEN Ret(vcm, <<>>, TRUE)
    ELSE IF Len(view_change_messages) < byzantine_threshold(cfg)
         THEN Ret(vcm, <<>>, FALSE)
    ELSE IF \E msg \in Range(view_change_messages) :
               \/ msg.type # "ViewChange"
               \/ msg.new_view # view
               \/ msg.validator_id \notin Range(cfg.validator_set)
         THEN Ret(vcm, <<>>, FALSE)
    ELSE Ret(start_view([vcm EXCEPT !.new_view_messages =
                            Put(@, view, NewView(view, view_change_messages))],
                        view),
             <<>>, TRUE)

(***************************************************************************)
(* ConsensusEngine (the orchestrator)                                      *)
(***************************************************************************)
\* Transaction::verify
TxVerify(tx) == tx.amount > 0 /\ tx.fee > 0 /\ tx.from # tx.to

\* Block::calculate_merkle_root: the zero hash for no transactions, else a
\* digest of the transaction list
calculate_merkle_root(transactions) ==
    IF transactions = <<>> THEN "zero" ELSE <<"merkle", transactions>>

\* Block::verify
BlockVerify(block) ==
    /\ block.merkle_root = calculate_merkle_root(block.transactions)
    /\ \A i \in DOMAIN block.transactions : TxVerify(block.transactions[i])

\* the one transaction of the runs, and the block stored at height 0
Tx1 == [id |-> "t1", from |-> "a", to |-> "b", amount |-> 1000, fee |-> 10,
        nonce |-> 1, signature |-> "s1", size |-> 1]

Genesis ==
    [proposer |-> "genesis", height |-> 0, previous_hash |-> "zero",
     merkle_root |-> "zero", round |-> 0, view |-> 0, transactions |-> <<>>]

(***************************************************************************)
(* Mempool                                                                 *)
(***************************************************************************)
\* Transaction::hash: SHA-256 of the transaction with its signature zeroed
TxHash(tx) == <<"sha256", [tx EXCEPT !.signature = "zero"]>>

\* bincode::serialize(tx).len(): the length grows with the data field alone,
\* which the model holds as the field size
TxSize(tx) == tx.size

MempoolNew ==
    [priority_queue |-> {},
     transactions |-> EmptyMap,
     by_sender |-> EmptyMap,
     tx_hashes |-> {},
     stats |-> [total_rejected |-> 0, total_transactions |-> 0],
     insertion_counter |-> 0]

PriorityTransaction(tx, priority_score, insertion_time) ==
    [transaction |-> tx, priority_score |-> priority_score,
     insertion_time |-> insertion_time]

\* impl Ord for PriorityTransaction: a > b
PriorityGreater(a, b) ==
    \/ a.priority_score > b.priority_score
    \/ /\ a.priority_score = b.priority_score
       /\ a.insertion_time < b.insertion_time

\* BinaryHeap::pop until empty: the entries of the heap, greatest first
RECURSIVE PopAll(_)
PopAll(heap) ==
    IF heap = {} THEN <<>>
    ELSE LET top == CHOOSE a \in heap : \A b \in heap \ {a} : PriorityGreater(a, b)
         IN <<top>> \o PopAll(heap \ {top})

mp_size(mp) == Cardinality(DOMAIN mp.transactions)

is_full(mcfg, mp) == mp_size(mp) >= mcfg.max_size

\* a validation that forgets the per-account limit
validate_transaction_no_account_limit(mcfg, mp, tx) ==
    IF tx.fee < mcfg.min_fee THEN FALSE
    ELSE IF TxSize(tx) > mcfg.max_tx_size THEN FALSE
    ELSE TxVerify(tx)

validate_transaction(mcfg, mp, tx) ==
    IF tx.fee < mcfg.min_fee THEN FALSE
    ELSE IF TxSize(tx) > mcfg.max_tx_size THEN FALSE
    ELSE IF /\ tx.from \in DOMAIN mp.by_sender
            /\ Len(mp.by_sender[tx.from]) >= mcfg.max_per_account THEN FALSE
    ELSE TxVerify(tx)

calculate_priority(tx) == tx.fee

increment_rejected(mp) == [mp EXCEPT !.stats.total_rejected = @ + 1]

should_replace(mcfg, tx) == tx.fee > mcfg.min_fee * 2

remove_transaction(mp, tx_id) ==
    IF tx_id \notin DOMAIN mp.transactions THEN Ret(mp, "None", TRUE)
    ELSE
      LET tx == mp.transactions[tx_id]
          kept == IF tx.from \in DOMAIN mp.by_sender
                  THEN SelectSeq(mp.by_sender[tx.from], LAMBDA id : id # tx_id)
                  ELSE <<>>
      IN Ret([mp EXCEPT
                !.transactions = Restrict(@, DOMAIN @ \ {tx_id}),
                !.tx_hashes = @ \ {TxHash(tx)},
                !.by_sender = IF tx.from \notin DOMAIN @ THEN @
                              ELSE IF kept = <<>>
                                   THEN Restrict(@, DOMAIN @ \ {tx.from})
                                   ELSE Put(@, tx.from, kept),
                !.stats.total_transactions =
                    Cardinality(DOMAIN mp.transactions \ {tx_id})],
             tx, TRUE)

\* the loop of cleanup_low_priority over the popped entries: the first
\* to_remove entries are removed, the others go back to the heap
RECURSIVE CleanupLoop(_, _, _, _)
CleanupLoop(mp, popped, removed_count, to_remove) ==
    IF popped = <<>> THEN mp
    ELSE IF removed_count < to_remove
         THEN CleanupLoop(
                [remove_transaction(mp, Head(popped).transaction.id).st
                   EXCEPT !.priority_queue = @ \ {Head(popped)}],
                Tail(popped), removed_count + 1, to_remove)
         ELSE mp

cleanup_low_priority(mcfg, mp) ==
    LET target_size == (mcfg.max_size * 9) \div 10
        current_size == mp_size(mp)
    IN IF current_size <= target_size THEN mp
       ELSE CleanupLoop(mp, PopAll(mp.priority_queue), 0, current_size - target_size)

\* the block of add_transaction that holds every lock: the transaction goes
\* into all the indices
AddToIndices(mp, tx, priority_score, insertion_time) ==
    [mp EXCEPT
       !.transactions = Put(@, tx.id, tx),
       !.tx_hashes = @ \cup {TxHash(tx)},
       !.priority_queue = @ \cup {PriorityTransaction(tx, priority_score, insertion_time)},
       !.by_sender = Put(@, tx.from,
                         (IF tx.from \in DOMAIN @ THEN @[tx.from] ELSE <<>>)
                            \o <<tx.id>>),
       !.stats.total_transactions = Cardinality(DOMAIN mp.transactions \cup {tx.id})]

\* an admission that forgets to look the hash up in tx_hashes
add_transaction_no_duplicate_check(mcfg, mp, tx) ==
    IF ~validate_transaction(mcfg, mp, tx) THEN Ret(increment_rejected(mp), FALSE, TRUE)
    ELSE IF is_full(mcfg, mp) /\ ~should_replace(mcfg, tx)
         THEN Ret(increment_rejected(mp), FALSE, TRUE)
    ELSE
      LET insertion_time == mp.insertion_counter + 1
          mp1 == AddToIndices([mp EXCEPT !.insertion_counter = insertion_time],
                              tx, calculate_priority(tx), insertion_time)
      IN Ret(IF is_full(mcfg, mp1) THEN cleanup_low_priority(mcfg, mp1) ELSE mp1,
             TRUE, TRUE)

add_transaction(mcfg, mp, tx) ==
    IF ~validate_transaction(mcfg, mp, tx) THEN Ret(increment_rejected(mp), FALSE, TRUE)
    ELSE IF TxHash(tx) \in mp.tx_hashes THEN Ret(mp, FALSE, TRUE)
    ELSE IF is_full(mcfg, mp) /\ ~should_replace(mcfg, tx)
         THEN Ret(increment_rejected(mp), FALSE, TRUE)
    ELSE
      LET insertion_time == mp.insertion_counter + 1
          mp1 == AddToIndices([mp EXCEPT !.insertion_counter = insertion_time],
                              tx, calculate_priority(tx), insertion_time)
      IN Ret(IF is_full(mcfg, mp1) THEN cleanup_low_priority(mcfg, mp1) ELSE mp1,
             TRUE, TRUE)

is_valid_nonce_order(tx, processed_senders) == tx.from \notin processed_senders

\* the loop of get_next_batch over the popped entries; dropped collects the
\* entries that are not pushed back
RECURSIVE BatchLoop(_, _, _, _, _, _, _, _)
BatchLoop(mp, popped, batch, total_size, processed_senders, dropped, max_count, max_size) ==
    IF popped = <<>> THEN [batch |-> batch, dropped |-> dropped]
    ELSE
      LET priority_tx == Head(popped)
          tx == priority_tx.transaction
      IN IF tx.id \notin DOMAIN mp.transactions
         THEN BatchLoop(mp, Tail(popped), batch, total_size, processed_senders,
                        dropped \cup {priority_tx}, max_count, max_size)
         ELSE IF Len(batch) >= max_count \/ total_size + TxSize(tx) > max_size
         THEN [batch |-> batch, dropped |-> dropped]
         ELSE IF is_valid_nonce_order(tx, processed_senders)
         THEN BatchLoop(mp, Tail(popped), Append(batch, tx),
                        total_size + TxSize(tx), processed_senders \cup {tx.from},
                        dropped, max_count, max_size)
         ELSE BatchLoop(mp, Tail(popped), batch, total_size, processed_senders,
                        dropped, max_count, max_size)

\* a batch that takes the entries of the chosen transactions off the heap
get_next_batch_consuming(mp, max_count, max_size) ==
    LET r == BatchLoop(mp, PopAll(mp.priority_queue), <<>>, 0, {}, {},
                       max_count, max_size)
    IN Ret([mp EXCEPT !.priority_queue =
               {e \in @ : e \notin r.dropped /\ e.transaction \notin Range(r.batch)}],
           r.batch, TRUE)

get_next_batch(mp, max_count, max_size) ==
    LET r == BatchLoop(mp, PopAll(mp.priority_queue), <<>>, 0, {}, {},
                       max_count, max_size)
    IN Ret([mp EXCEPT !.priority_queue = @ \ r.dropped], r.batch, TRUE)

get_transaction(mp, tx_id) ==
    IF tx_id \in DOMAIN mp.transactions THEN mp.transactions[tx_id] ELSE "None"

contains(mp, tx_id) == tx_id \in DOMAIN mp.transactions

clear(mp) ==
    [mp EXCEPT !.transactions = EmptyMap, !.priority_queue = {},
               !.by_sender = EmptyMap, !.tx_hashes = {},
               !.stats.total_transactions = 0]

\* StateStore::get_nonce: the nonce of the stored account, 0 without one
get_nonce(state_store, address) ==
    IF address \in DOMAIN state_store THEN state_store[address].nonce ELSE 0

\* the loop of commit_block over the transactions of the block
RECURSIVE RemoveCommitted(_, _)
RemoveCommitted(mp, transactions) ==
    IF transactions = <<>> THEN mp
    ELSE RemoveCommitted(remove_transaction(mp, Head(transactions).id).st,
                         Tail(transactions))

\* ConsensusEngine::new over a store and a pool
ConsensusEngineNew(storage, mempool) ==
    [state |-> "Idle",
     current_view |-> 0,
     current_round |-> 0,
     current_height |-> IF DOMAIN storage = {} THEN 0
                        ELSE CHOOSE h \in DOMAIN storage :
                               \A g \in DOMAIN storage : g <= h,
     pending_blocks |-> EmptyMap,
     votes |-> EmptyMap,
     view_timeout |-> "None",
     storage |-> storage,
     state_store |-> EmptyMap,
     mempool |-> mempool,
     view_change_manager |-> ViewChangeManagerNew]

create_block(cfg, o, transactions, height, view, round) ==
    IF height # 0 /\ (height - 1) \notin DOMAIN o.storage
    THEN Ret(o, <<>>, FALSE)
    ELSE Ret([proposer |-> cfg.node_id,
              height |-> height,
              previous_hash |-> IF height = 0 THEN "zero"
                                ELSE BlockHash(o.storage[height - 1]),
              merkle_root |-> calculate_merkle_root(transactions),
              round |-> round,
              view |-> view,
              transactions |-> transactions],
             <<>>, TRUE)

\* a threshold of the leader election that forgets the "+ 1"
le_byzantine_threshold_no_plus_one(vs) ==
    IF Len(vs) = 0 THEN 0 ELSE (Len(vs) * 2) \div 3

\* a threshold that is a simple majority
le_byzantine_threshold_majority(vs) ==
    IF Len(vs) = 0 THEN 0 ELSE (Len(vs) \div 2) + 1

\* LeaderElection::byzantine_threshold
le_byzantine_threshold(vs) ==
    IF Len(vs) = 0 THEN 0 ELSE ((Len(vs) * 2) \div 3) + 1

\* LeaderElection::max_byzantine_faults
max_byzantine_faults(vs) ==
    IF Len(vs) < 4 THEN 0 ELSE (Len(vs) - 1) \div 3

\* LeaderElection::is_bft_capable
is_bft_capable(vs) == Len(vs) >= 4

\* a leader election that is one view ahead
get_leader_of_next_view(cfg, view) ==
    IF Len(cfg.validator_set) = 0 THEN "unknown"
    ELSE cfg.validator_set[((view + 1) % Len(cfg.validator_set)) + 1]

\* LeaderElection::get_leader
get_leader(cfg, view) ==
    IF Len(cfg.validator_set) = 0 THEN "unknown"
    ELSE cfg.validator_set[(view % Len(cfg.validator_set)) + 1]

\* elapsed: whether block_time_ms has passed since last_block_time
should_propose_block(cfg, o, elapsed) ==
    /\ get_leader(cfg, o.current_view) = cfg.node_id
    /\ o.state = "Idle"
    /\ elapsed

propose_block(cfg, o) ==
    LET got == get_next_batch(o.mempool, cfg.max_transactions_per_block,
                              cfg.max_block_size)
        transactions == got.out
        o1 == [o EXCEPT !.mempool = got.st]
        created == create_block(cfg, o1, transactions, o.current_height + 1,
                                o.current_view, o.current_round)
        block == created.st
    IN IF transactions = <<>> THEN Ret(o1, <<>>, TRUE)
       ELSE IF ~created.ok THEN Ret(o1, <<>>, FALSE)
       ELSE Ret([o1 EXCEPT !.pending_blocks = Put(@, BlockHash(block), block),
                           !.state = "Proposing"],
                <<Propose(block, o.current_round, o.current_view)>>, TRUE)

handle_propose_message(cfg, o, block, round, view) ==
    IF view # o.current_view \/ round # o.current_round THEN Ret(o, <<>>, TRUE)
    ELSE IF ~BlockVerify(block) THEN Ret(o, <<>>, TRUE)
    ELSE Ret([o EXCEPT !.pending_blocks = Put(@, BlockHash(block), block),
                       !.state = "Preparing"],
             <<Vote(BlockHash(block), "Prepare", round, view, cfg.node_id)>>,
             TRUE)

\* Storage::store_block writes the block, then its transactions, then the
\* latest height, and returns the first error: stored is "Ok", "ErrBefore"
\* (nothing was written) or "ErrAfterBlock" (the block was written)
StoreResults == {"Ok", "ErrBefore", "ErrAfterBlock"}

\* a commit that resets the state and the round before it writes the block
commit_block_storing_reset_first(cfg, o, block_hash, stored) ==
    IF block_hash \notin DOMAIN o.pending_blocks THEN Ret(o, <<>>, FALSE)
    ELSE
      LET block == o.pending_blocks[block_hash]
          o1 == [o EXCEPT !.state = "Idle", !.current_round = @ + 1]
      IN IF stored = "ErrBefore" THEN Ret(o1, <<>>, FALSE)
         ELSE IF stored = "ErrAfterBlock"
         THEN Ret([o1 EXCEPT !.storage = Put(@, block.height, block)], <<>>, FALSE)
         ELSE Ret([o1 EXCEPT
                !.storage = Put(@, block.height, block),
                !.current_height = block.height,
                !.mempool = RemoveCommitted(@, block.transactions),
                !.pending_blocks = Restrict(@, DOMAIN @ \ {block_hash})],
             <<>>, TRUE)

commit_block_storing(cfg, o, block_hash, stored) ==
    IF block_hash \notin DOMAIN o.pending_blocks THEN Ret(o, <<>>, FALSE)
    ELSE
      LET block == o.pending_blocks[block_hash]
      IN IF stored = "ErrBefore" THEN Ret(o, <<>>, FALSE)
         ELSE IF stored = "ErrAfterBlock"
         THEN Ret([o EXCEPT !.storage = Put(@, block.height, block)], <<>>, FALSE)
         ELSE Ret([o EXCEPT
                !.storage = Put(@, block.height, block),
                !.current_height = block.height,
                !.mempool = RemoveCommitted(@, block.transactions),
                !.pending_blocks = Restrict(@, DOMAIN @ \ {block_hash}),
                !.state = "Idle",
                !.current_round = @ + 1],
             <<>>, TRUE)

\* commit_block over a store whose writes succeed
commit_block(cfg, o, block_hash) == commit_block_storing(cfg, o, block_hash, "Ok")

check_vote_threshold_storing(cfg, o, block_hash, vote_type, round, view, stored) ==
    LET vote_key == <<view, round, block_hash>>
        required_votes == ((Len(cfg.validator_set) * 2) \div 3) + 1
        vote_count ==
            IF vote_key \in DOMAIN o.votes
            THEN Cardinality({n \in DOMAIN o.votes[vote_key] :
                                o.votes[vote_key][n].vote_type = vote_type})
            ELSE 0
    IN IF vote_count < required_votes THEN Ret(o, <<>>, TRUE)
       ELSE IF vote_type = "Prepare"
       THEN Ret([o EXCEPT !.state = "Committing"],
                <<Vote(block_hash, "Commit", round, view, cfg.node_id)>>, TRUE)
       ELSE commit_block_storing(cfg, o, block_hash, stored)

check_vote_threshold(cfg, o, block_hash, vote_type, round, view) ==
    check_vote_threshold_storing(cfg, o, block_hash, vote_type, round, view, "Ok")

handle_vote_message_storing(cfg, o, block_hash, vote_type, round, view, validator_id, stored) ==
    IF view # o.current_view \/ round # o.current_round THEN Ret(o, <<>>, TRUE)
    ELSE IF validator_id \notin Range(cfg.validator_set) THEN Ret(o, <<>>, TRUE)
    ELSE
      LET vote_key == <<view, round, block_hash>>
          old == IF vote_key \in DOMAIN o.votes THEN o.votes[vote_key] ELSE EmptyMap
          o1 == [o EXCEPT !.votes =
                    Put(@, vote_key,
                        Put(old, validator_id,
                            Vote(block_hash, vote_type, round, view, validator_id)))]
      IN check_vote_threshold_storing(cfg, o1, block_hash, vote_type, round, view, stored)

handle_vote_message(cfg, o, block_hash, vote_type, round, view, validator_id) ==
    handle_vote_message_storing(cfg, o, block_hash, vote_type, round, view, validator_id, "Ok")

handle_view_change_message(cfg, o, new_view, validator_id) ==
    LET r == vcm_handle_view_change(cfg, o.view_change_manager, new_view, validator_id)
    IN Ret([o EXCEPT !.view_change_manager = r.st], r.out, r.ok)

handle_new_view_message(cfg, o, view, view_change_messages) ==
    LET r == vcm_handle_new_view(cfg, o.view_change_manager, view, view_change_messages)
    IN Ret([o EXCEPT !.view_change_manager = r.st], r.out, r.ok)

handle_consensus_message_storing(cfg, o, message, stored) ==
    CASE message.type = "Propose" ->
           handle_propose_message(cfg, o, message.block, message.round, message.view)
      [] message.type = "Vote" ->
           handle_vote_message_storing(cfg, o, message.block_hash, message.vote_type,
                                       message.round, message.view,
                                       message.validator_id, stored)
      [] message.type = "ViewChange" ->
           handle_view_change_message(cfg, o, message.new_view, message.validator_id)
      [] message.type = "NewView" ->
           handle_new_view_message(cfg, o, message.view, message.view_change_messages)

handle_consensus_message(cfg, o, message) ==
    handle_consensus_message_storing(cfg, o, message, "Ok")

\* past: whether Instant::now() is after the deadline held in view_timeout
should_trigger_view_change(o, past) ==
    IF o.view_timeout # "None" THEN past ELSE FALSE

trigger_view_change(cfg, o) ==
    LET new_view == o.current_view + 1
        r == vcm_trigger_view_change(cfg, o.view_change_manager, new_view)
    IN IF ~r.ok THEN Ret(o, <<>>, FALSE)
       ELSE Ret([o EXCEPT !.view_change_manager = r.st,
                          !.current_view = new_view,
                          !.state = "ViewChanging"],
                r.out, TRUE)

\* one iteration of start_consensus_loop
consensus_loop_tick(cfg, o, elapsed, past) ==
    LET p == IF should_propose_block(cfg, o, elapsed)
             THEN propose_block(cfg, o) ELSE Ret(o, <<>>, TRUE)
        t == IF should_trigger_view_change(p.st, past)
             THEN trigger_view_change(cfg, p.st) ELSE Ret(p.st, <<>>, TRUE)
    IN Ret(t.st, p.out \o t.out, p.ok /\ t.ok)

(***************************************************************************)
(* SpecOrch: four validators and one observer run the orchestrator.  Every *)
(* broadcast is delivered exactly once to every node.  Of the delivery     *)
(* orders, the specification takes those in which a vote reaches all nodes *)
(* in one step, in any order among the votes, while a Propose reaches each *)
(* node at a time of its own.                                              *)
(***************************************************************************)
OrchNodes == Validators \cup {Outsider}

OrchCfg(n) == ConsensusConfig(n, n \in Validators)

\* MempoolConfig of the node (node.rs)
NodeMempoolConfig ==
    [max_size |-> 10000, max_per_account |-> 100, min_fee |-> 1,
     max_tx_size |-> 1048576]

\* a transaction whose nonce is not the successor of its sender's stored nonce
TxNonce7 == [Tx1 EXCEPT !.id = "t7", !.nonce = 7]

\* the pools the run may start from: empty, or holding one transaction that
\* add_transaction admitted
Pools ==
    {MempoolNew} \cup
    {add_transaction(NodeMempoolConfig, MempoolNew, tx).st : tx \in {Tx1, TxNonce7}}

InitOrch ==
    /\ pool = 0 /\ last = 0 /\ thr = 0 /\ lock = 0
    /\ \E mempool \in Pools :
         orch = [n \in OrchNodes |-> ConsensusEngineNew(0 :> Genesis, mempool)]
    /\ inbox = [n \in OrchNodes |-> EmptyBag]
    /\ sent = {}
    /\ engine = 0 /\ calls = 0 /\ nodes = 0 /\ net = 0 /\ rcvd = 0
    /\ pair = 0 /\ todo = 0

RECURSIVE BagOfSeq(_)
BagOfSeq(msgs) ==
    IF msgs = <<>> THEN EmptyBag ELSE SetToBag({Head(msgs)}) (+) BagOfSeq(Tail(msgs))

RECURSIVE BagSum(_, _)
BagSum(rs, S) ==
    IF S = {} THEN EmptyBag
    ELSE LET n == CHOOSE x \in S : TRUE
         IN BagOfSeq(rs[n].out) (+) BagSum(rs, S \ {n})

\* broadcast_consensus_message with the network behind the channel: the
\* NetworkMessage of each broadcast carries its sender
NetworkMessages(rs) ==
    UNION {{[sender |-> n, payload |-> rs[n].out[j]] : j \in DOMAIN rs[n].out} :
             n \in DOMAIN rs}

\* the nodes in S have run a handler with results rs; the nodes in S that
\* consumed a message consumed m
Network(rs, taken) ==
    /\ orch' = [n \in OrchNodes |-> IF n \in DOMAIN rs THEN rs[n].st ELSE orch[n]]
    /\ inbox' = [n \in OrchNodes |->
                   (inbox[n] (-) (IF n \in DOMAIN rs THEN taken ELSE EmptyBag))
                   (+) BagSum(rs, DOMAIN rs)]
    /\ sent' = sent \cup NetworkMessages(rs)
    /\ UNCHANGED <<engine, calls, nodes, net, rcvd, pair, todo, pool, last, thr, lock>>

\* start: only a validator runs start_consensus_loop; one tick of its interval
Tick(n) ==
    /\ OrchCfg(n).is_validator
    /\ \E elapsed \in BOOLEAN, past \in BOOLEAN :
      Network([x \in {n} |-> consensus_loop_tick(OrchCfg(n), orch[n], elapsed, past)],
              EmptyBag)

\* process_messages of node n takes a Propose from its channel
ReceivePropose(n) ==
    \E m \in BagToSet(inbox[n]) :
      /\ m.type = "Propose"
      /\ Network([x \in {n} |-> handle_consensus_message(OrchCfg(n), orch[n], m)],
                 SetToBag({m}))

\* process_messages of every node takes the same message, other than a
\* Propose, from its channel
ReceiveVote ==
    \E m \in BagToSet(inbox[Outsider]) :
      /\ m.type # "Propose"
      /\ \A n \in OrchNodes : BagIn(m, inbox[n])
      /\ Network([n \in OrchNodes |-> handle_consensus_message(OrchCfg(n), orch[n], m)],
                 SetToBag({m}))

NextOrch ==
    \/ \E n \in OrchNodes : Tick(n)
    \/ \E n \in OrchNodes : ReceivePropose(n)
    \/ ReceiveVote

\* the interval of every validator keeps ticking and every channel is
\* drained
SpecOrch ==
    /\ InitOrch
    /\ [][NextOrch]_vars
    /\ \A n \in Validators : WF_vars(Tick(n))
    /\ \A n \in OrchNodes : WF_vars(ReceivePropose(n))
    /\ WF_vars(ReceiveVote)

\* the block of a Propose that was broadcast
ProposedBlocks == {s.payload.block : s \in {x \in sent : x.payload.type = "Propose"}}

\* node n has committed block B: stored it at its height, removed its
\* transactions from the pool and advanced its round by 1
HasCommitted(n, B) ==
    /\ B.height \in DOMAIN orch[n].storage
    /\ orch[n].storage[B.height] = B
    /\ \A i \in DOMAIN B.transactions :
         ~contains(orch[n].mempool, B.transactions[i].id)
    /\ orch[n].current_round = B.round + 1

\* C7: happy-path liveness.  With four honest validators and every broadcast
\* delivered exactly once to every validator in some order, once the view-0
\* primary has proposed a valid block B for the current round, every
\* validator eventually commits B.  A node commits only while it handles a
\* vote, so the claim is checked at the states where every broadcast has
\* been delivered to every node: by then every validator has committed B.
C7_EveryValidatorCommits ==
    (/\ \E B \in ProposedBlocks : BlockVerify(B)
     /\ \A n \in OrchNodes : inbox[n] = EmptyBag)
      => (\E B \in ProposedBlocks : \A n \in Validators : HasCommitted(n, B))

\* C8: view-change liveness.  If the primary of the current view never
\* proposes (its pool is empty and nothing was broadcast), every other
\* validator eventually triggers a view change on some tick and view 1 is
\* eventually installed on all of them.
C8_NextViewInstalled ==
    (mp_size(orch["v1"].mempool) = 0 /\ sent = {})
      ~> (\A n \in Validators \ {"v1"} : orch[n].current_view >= 1)

\* C9: a node with is_validator = FALSE never broadcasts a Vote or a
\* Propose, whatever consensus messages it receives.
C9_ObserverNeverVotes ==
    \A s \in sent :
      ~OrchCfg(s.sender).is_validator => s.payload.type \notin {"Vote", "Propose"}

\* C12: every transaction in a block committed by the orchestrator has a
\* nonce equal to its sender's stored nonce at commit time plus 1; a block
\* holding a transaction with any other nonce is never committed.
C12_CommittedNonceIsNext ==
    \A n \in OrchNodes : \A h \in DOMAIN orch[n].storage \ {0} :
      \A i \in DOMAIN orch[n].storage[h].transactions :
        LET tx == orch[n].storage[h].transactions[i]
        IN tx.nonce = get_nonce(orch[n].state_store, tx.from) + 1

(***************************************************************************)
(* SpecDup: one PbftEngine that has pre-prepared one block receives        *)
(* Prepare and Commit votes for it, any vote any number of times; rcvd     *)
(* holds the Prepare votes the engine has stored on delivery so far.       *)
(***************************************************************************)
DupMessages == OrderVotes

InitDup ==
    /\ pool = 0 /\ last = 0 /\ thr = 0 /\ lock = 0
    /\ engine = PrePrepared
    /\ rcvd = {}
    /\ calls = 0 /\ nodes = 0 /\ net = 0 /\ pair = 0 /\ todo = 0
    /\ orch = 0 /\ inbox = 0 /\ sent = 0

DupDeliver ==
    \E m \in DupMessages :
      /\ engine' = process_message(EngineCfg, engine, m).st
      /\ rcvd' = IF /\ m.type = "Vote" /\ m.vote_type = "Prepare"
                    /\ m.validator_id \in
                         VotersIn(engine', m.view, m.round, m.block_hash, "Prepare")
                 THEN rcvd \cup {m} ELSE rcvd
      /\ UNCHANGED <<calls, nodes, net, pair, todo, orch, inbox, sent, pool, last, thr, lock>>

NextDup == DupDeliver

SpecDup == InitDup /\ [][NextDup]_vars

\* C11: delivering a Prepare vote the engine has already received (and
\* stored) from the same validator for the same (view, sequence) changes neither the number
\* of distinct Prepare voters nor the number of distinct Commit voters of
\* that (view, sequence), nor the prepared and committed certificate sets,
\* whatever other votes were delivered in between.
C11_DuplicatePrepareIdempotent ==
    [][\A m \in rcvd :
         engine' = process_message(EngineCfg, engine, m).st =>
           /\ \A t \in {"Prepare", "Commit"} :
                Cardinality(VotersIn(engine', m.view, m.round, m.block_hash, t))
                  = Cardinality(VotersIn(engine, m.view, m.round, m.block_hash, t))
           /\ engine'.prepared_certificates = engine.prepared_certificates
           /\ engine'.committed_certificates = engine.committed_certificates]_vars

(***************************************************************************)
(* SpecMempool: one Mempool under sequential calls of add_transaction,     *)
(* remove_transaction, get_next_batch and clear; last holds the call that  *)
(* returned last, its argument and its result.                             *)
(***************************************************************************)
MemCfg ==
    [max_size |-> MaxPoolSize, max_per_account |-> MaxPerAccount,
     min_fee |-> MinFee, max_tx_size |-> MaxTxSize]

MemTx(id, from, fee, size) ==
    [id |-> id, from |-> from, to |-> "z", amount |-> 1000, fee |-> fee,
     nonce |-> 1, signature |-> "s1", size |-> size]

\* the transactions offered to the pool: three senders with fees 5, 15, 10
\* (the priority test), two more of sender a, a copy of the first under
\* another signature (the same hash), and one that reuses the id of the first
MemTxs ==
    {MemTx("t1", "a", 5, 1), MemTx("t2", "b", 15, 1), MemTx("t3", "c", 10, 2),
     MemTx("t4", "a", 10, 1), MemTx("t5", "a", 15, 1),
     [MemTx("t1", "a", 5, 1) EXCEPT !.signature = "s2"],
     MemTx("t1", "b", 15, 1)}

MemIds == {tx.id : tx \in MemTxs}

InitMempool ==
    /\ pool = MempoolNew
    /\ last = [op |-> "new", arg |-> 0, ret |-> 0]
    /\ thr = 0 /\ lock = 0
    /\ engine = 0 /\ calls = 0 /\ nodes = 0 /\ net = 0 /\ rcvd = 0
    /\ pair = 0 /\ todo = 0 /\ orch = 0 /\ inbox = 0 /\ sent = 0

Others == <<engine, calls, nodes, net, rcvd, pair, todo, orch, inbox, sent>>

AddTransaction ==
    \E tx \in MemTxs :
      /\ pool.insertion_counter < MaxInsertions
      /\ pool.stats.total_rejected < MaxRejected
      /\ pool' = add_transaction(MemCfg, pool, tx).st
      /\ last' = [op |-> "add", arg |-> tx,
                  ret |-> add_transaction(MemCfg, pool, tx).out]
      /\ UNCHANGED <<thr, lock, Others>>

RemoveTransaction ==
    \E tx_id \in MemIds :
      /\ pool' = remove_transaction(pool, tx_id).st
      /\ last' = [op |-> "remove", arg |-> tx_id,
                  ret |-> remove_transaction(pool, tx_id).out]
      /\ UNCHANGED <<thr, lock, Others>>

GetNextBatch ==
    \E max_count \in 1..MaxCount, max_size \in {1, MaxBytes} :
      /\ pool' = get_next_batch(pool, max_count, max_size).st
      /\ last' = [op |-> "batch", arg |-> <<max_count, max_size>>,
                  ret |-> get_next_batch(pool, max_count, max_size).out]
      /\ UNCHANGED <<thr, lock, Others>>

Clear ==
    /\ pool' = clear(pool)
    /\ last' = [op |-> "clear", arg |-> 0, ret |-> 0]
    /\ UNCHANGED <<thr, lock, Others>>

NextMempool ==
    \/ AddTransaction
    \/ RemoveTransaction
    \/ GetNextBatch
    \/ Clear

SpecMempool == InitMempool /\ [][NextMempool]_vars

\* the transactions stored in the pool
Stored(mp) == {mp.transactions[id] : id \in DOMAIN mp.transactions}

\* the pool holds a transaction with the hash of tx
HoldsHash(mp, tx) == \E t \in Stored(mp) : TxHash(t) = TxHash(tx)

\* C13: after any sequence of add_transaction, remove_transaction,
\* get_next_batch and clear calls the pool never holds two transactions with
\* the same hash, and adding a transaction that is still present returns
\* false and leaves the size unchanged.
C13_NoDuplicateHash ==
    [][/\ \A i, j \in DOMAIN pool'.transactions :
            i # j => TxHash(pool'.transactions[i]) # TxHash(pool'.transactions[j])
       /\ (last'.op = "add" /\ HoldsHash(pool, last'.arg)) =>
            (last'.ret = FALSE /\ mp_size(pool') = mp_size(pool))]_vars

\* the copy of a stored transaction under another signature was refused
C13_Witness ==
    /\ last.op = "add" /\ last.ret = FALSE
    /\ HoldsHash(pool, last.arg)
    /\ last.arg \notin Stored(pool)
    /\ mp_size(pool) >= 2

\* C35: get_next_batch does not consume anything: it leaves the stored
\* transactions, the sender index and the hash set unchanged, every heap
\* entry whose transaction is still stored remains in the heap (only stale
\* entries of removed transactions may be dropped), and a second call with
\* the same limits returns the same batch.
C35_BatchDoesNotConsume ==
    [][last'.op = "batch" =>
         /\ pool'.transactions = pool.transactions
         /\ pool'.by_sender = pool.by_sender
         /\ pool'.tx_hashes = pool.tx_hashes
         /\ pool'.priority_queue \subseteq pool.priority_queue
         /\ \A e \in pool.priority_queue :
              e.transaction.id \in DOMAIN pool.transactions
                => e \in pool'.priority_queue
         /\ get_next_batch(pool', last'.arg[1], last'.arg[2]).out = last'.ret]_vars

\* a batch of two transactions was returned from a pool of three, and the
\* heap still holds the entries of all three
C35_Witness ==
    /\ last.op = "batch"
    /\ Len(last.ret) = 2
    /\ mp_size(pool) = 3
    /\ Cardinality(pool.priority_queue) >= 3

\* C38: after any sequence of add_transaction, remove_transaction,
\* get_next_batch and clear calls (including adds of two different
\* transactions that share an id) the indices agree: the hash set equals the
\* set of hashes of the stored transactions, the sender index lists each
\* stored transaction id exactly once under its sender and lists no other
\* id, and stats.total_transactions equals the number of stored
\* transactions.
C38_IndicesAgree ==
    /\ pool.tx_hashes = {TxHash(tx) : tx \in Stored(pool)}
    /\ \A id \in DOMAIN pool.transactions :
         LET from == pool.transactions[id].from
         IN /\ from \in DOMAIN pool.by_sender
            /\ Cardinality({i \in DOMAIN pool.by_sender[from] :
                              pool.by_sender[from][i] = id}) = 1
    /\ \A from \in DOMAIN pool.by_sender :
         \A i \in DOMAIN pool.by_sender[from] :
           LET id == pool.by_sender[from][i]
           IN id \in DOMAIN pool.transactions /\ pool.transactions[id].from = from
    /\ pool.stats.total_transactions = mp_size(pool)

\* C21: every add_transaction call that returns false increases
\* total_rejected by exactly one and leaves the stored transactions, the
\* sender index and the hash set unchanged, whatever the rejection reason.
C21_RejectionCounted ==
    [][(last'.op = "add" /\ last'.ret = FALSE) =>
         /\ pool'.stats.total_rejected = pool.stats.total_rejected + 1
         /\ pool'.transactions = pool.transactions
         /\ pool'.by_sender = pool.by_sender
         /\ pool'.tx_hashes = pool.tx_hashes]_vars

\* the transactions of a sender stored in the pool
StoredOf(mp, sender) == {t \in Stored(mp) : t.from = sender}

\* C14: after any sequence of add_transaction, remove_transaction and clear
\* calls no sender has more than max_per_account transactions stored.
C14_PerAccountLimit ==
    \A tx \in MemTxs :
      Cardinality(StoredOf(pool, tx.from)) <= MemCfg.max_per_account

\* a sender is at the limit and its next transaction was refused
C14_Witness ==
    /\ last.op = "add" /\ last.ret = FALSE
    /\ ~HoldsHash(pool, last.arg)
    /\ Cardinality(StoredOf(pool, last.arg.from)) = MemCfg.max_per_account

\* the insertion counter under which a transaction of the pool was admitted
\* last: the greatest insertion_time of its entries in the priority queue
AdmittedAt(mp, tx) ==
    LET times == {e.insertion_time : e \in {x \in mp.priority_queue : x.transaction = tx}}
    IN IF times = {} THEN 0 ELSE CHOOSE t \in times : \A u \in times : u <= t

\* C17: get_next_batch returns transactions in priority order: fees are
\* non-increasing along the batch and, among equal fees, the transaction
\* admitted earlier comes first.
C17_BatchInPriorityOrder ==
    last.op = "batch" =>
      \A i, j \in DOMAIN last.ret :
        i < j =>
          /\ last.ret[i].fee >= last.ret[j].fee
          /\ last.ret[i].fee = last.ret[j].fee =>
                AdmittedAt(pool, last.ret[i]) < AdmittedAt(pool, last.ret[j])

RECURSIVE SumSize(_)
SumSize(txs) == IF txs = <<>> THEN 0 ELSE TxSize(Head(txs)) + SumSize(Tail(txs))

\* C18: every batch returned by get_next_batch(max_count, max_size) has at
\* most max_count transactions, a total serialized size of at most max_size,
\* at most one transaction per sender, and holds only transactions that are
\* stored in the pool at that time.
C18_BatchWithinLimits ==
    last.op = "batch" =>
      /\ Len(last.ret) <= last.arg[1]
      /\ SumSize(last.ret) <= last.arg[2]
      /\ \A i, j \in DOMAIN last.ret : i # j => last.ret[i].from # last.ret[j].from
      /\ \A i \in DOMAIN last.ret : last.ret[i] \in Stored(pool)

\* the transactions that a successful add_transaction(tx) on mp, leading to
\* after, evicted: those stored before or admitted now that are gone, other
\* than one that tx replaced under its own id
Evicted(mp, tx, after) ==
    {t \in (Stored(mp) \cup {tx}) \ Stored(after) : t.id # tx.id \/ t = tx}

\* C19: when add_transaction triggers eviction, every evicted transaction
\* has a fee no higher than every transaction that stays in the pool.
C19_EvictsLowestPriority ==
    [][(last'.op = "add" /\ last'.ret = TRUE) =>
         \A gone \in Evicted(pool, last'.arg, pool') :
           \A kept \in Stored(pool') : gone.fee <= kept.fee]_vars

\* C20: whenever add_transaction(tx) returns true the pool contains tx
\* immediately afterwards: contains(tx.id) is true and get_transaction(tx.id)
\* returns it.
C20_AddedIsContained ==
    [][(last'.op = "add" /\ last'.ret = TRUE) =>
         /\ contains(pool', last'.arg.id)
         /\ get_transaction(pool', last'.arg.id) = last'.arg]_vars

(***************************************************************************)
(* SpecThreads: two threads call the Mempool at the same time.  A call is  *)
(* a sequence of steps, one per lock acquisition; a step waits until the   *)
(* RwLock it takes is free.  The stats and insertion_counter locks are     *)
(* taken last and released before any other lock is asked for, so a thread *)
(* never waits while holding one; their acquisitions are part of the step  *)
(* in which they occur.                                                    *)
(***************************************************************************)
Threads == {1, 2}

LockNames == {"transactions", "priority_queue", "by_sender", "tx_hashes"}

ThrCfg ==
    [MemCfg EXCEPT !.max_size = MaxThreadPool, !.max_per_account = MaxThreadAccount]

ThrTxs == {MemTx("t1", "a", 5, 1), MemTx("t4", "a", 10, 1), MemTx("t2", "b", 15, 1),
           MemTx("t3", "c", 10, 1)}

\* the calls a thread may make
ThrCalls ==
    {[op |-> "add", arg |-> tx] : tx \in ThrTxs}
    \cup {[op |-> "remove", arg |-> tx.id] : tx \in ThrTxs}
    \cup {[op |-> "batch", arg |-> <<MaxCount, MaxBytes>>], [op |-> "clear", arg |-> 0]}

\* RwLock::read / RwLock::write return when
CanRead(l) == lock[l].writer = 0
CanWrite(l) == lock[l].writer = 0 /\ lock[l].readers = {}

ReadLocked(l, t) == [lock EXCEPT ![l].readers = @ \cup {t}]
WriteLocked(l, t) == [lock EXCEPT ![l].writer = t]

\* the guards of thread t go out of scope
Released(t) ==
    [l \in LockNames |->
       [writer |-> IF lock[l].writer = t THEN 0 ELSE lock[l].writer,
        readers |-> lock[l].readers \ {t}]]

\* the pools the calls start from: up to two transactions added one at a time
ThrPools ==
    LET one == {add_transaction(ThrCfg, MempoolNew, tx).st : tx \in ThrTxs}
    IN {MempoolNew} \cup one
         \cup {add_transaction(ThrCfg, mp, tx).st : mp \in one, tx \in ThrTxs}

InitThreads ==
    /\ pool \in ThrPools
    /\ thr = [t \in Threads |-> [pc |-> "idle", op |-> "none", arg |-> 0, ret |-> 0,
                                  time |-> 0, popped |-> <<>>, removed |-> 0,
                                  to_remove |-> 0]]
    /\ lock = [l \in LockNames |-> [writer |-> 0, readers |-> {}]]
    /\ last = pool
    /\ engine = 0 /\ calls = 0 /\ nodes = 0 /\ net = 0 /\ rcvd = 0
    /\ pair = 0 /\ todo = 0 /\ orch = 0 /\ inbox = 0 /\ sent = 0

\* thread t moves to pc
Goto(t, pc) == thr' = [thr EXCEPT ![t].pc = pc]

\* the call of thread t returns ret
Return(t, ret) == thr' = [thr EXCEPT ![t].pc = "done", ![t].ret = ret]

\* thread t starts a call
Call(t) ==
    /\ thr[t].pc = "idle"
    /\ \E c \in ThrCalls :
         thr' = [thr EXCEPT ![t].op = c.op, ![t].arg = c.arg,
                            ![t].pc = CASE c.op = "add" -> "add_validate"
                                        [] c.op = "remove" -> "rm_transactions"
                                        [] c.op = "batch" -> "bt_transactions"
                                        [] c.op = "clear" -> "clr_transactions"]
    /\ UNCHANGED <<pool, lock, last, Others>>

\* a step that takes write lock l and keeps it
TakeWrite(t, at, l, next) ==
    /\ thr[t].pc = at
    /\ CanWrite(l)
    /\ lock' = WriteLocked(l, t)
    /\ Goto(t, next)
    /\ UNCHANGED <<pool, last, Others>>

\* add_transaction: validate_transaction under the by_sender read lock
AddValidate(t) ==
    /\ thr[t].pc = "add_validate"
    /\ CanRead("by_sender")
    /\ IF validate_transaction(ThrCfg, pool, thr[t].arg)
       THEN Goto(t, "add_duplicate") /\ UNCHANGED pool
       ELSE Return(t, FALSE) /\ pool' = increment_rejected(pool)
    /\ UNCHANGED <<lock, last, Others>>

\* add_transaction: the duplicate check under the tx_hashes read lock
AddDuplicate(t) ==
    /\ thr[t].pc = "add_duplicate"
    /\ CanRead("tx_hashes")
    /\ IF TxHash(thr[t].arg) \in pool.tx_hashes
       THEN Return(t, FALSE) ELSE Goto(t, "add_capacity")
    /\ UNCHANGED <<pool, lock, last, Others>>

\* add_transaction: the capacity check (is_full reads transactions)
AddCapacity(t) ==
    /\ thr[t].pc = "add_capacity"
    /\ CanRead("transactions")
    /\ IF is_full(ThrCfg, pool) /\ ~should_replace(ThrCfg, thr[t].arg)
       THEN Return(t, FALSE) /\ pool' = increment_rejected(pool)
       ELSE Goto(t, "add_counter") /\ UNCHANGED pool
    /\ UNCHANGED <<lock, last, Others>>

\* add_transaction: the insertion counter
AddCounter(t) ==
    /\ thr[t].pc = "add_counter"
    /\ pool' = [pool EXCEPT !.insertion_counter = @ + 1]
    /\ thr' = [thr EXCEPT ![t].pc = "add_transactions",
                          ![t].time = pool.insertion_counter + 1]
    /\ UNCHANGED <<lock, last, Others>>

\* add_transaction: the write locks of the insertion, in the order taken
AddLockTransactions(t) ==
    /\ thr[t].op = "add"
    /\ TakeWrite(t, "add_transactions", "transactions", "add_priority_queue")

AddLockPriorityQueue(t) ==
    /\ thr[t].op = "add"
    /\ TakeWrite(t, "add_priority_queue", "priority_queue", "add_by_sender")

AddLockBySender(t) ==
    /\ thr[t].op = "add"
    /\ TakeWrite(t, "add_by_sender", "by_sender", "add_tx_hashes")

\* add_transaction: with the last lock the transaction goes into the
\* indices and the guards are dropped
AddInsert(t) ==
    /\ thr[t].pc = "add_tx_hashes"
    /\ CanWrite("tx_hashes")
    /\ pool' = AddToIndices(pool, thr[t].arg, calculate_priority(thr[t].arg),
                            thr[t].time)
    /\ lock' = Released(t)
    /\ Goto(t, "add_is_full")
    /\ UNCHANGED <<last, Others>>

\* add_transaction: is_full after the insertion
AddIsFull(t) ==
    /\ thr[t].pc = "add_is_full"
    /\ CanRead("transactions")
    /\ IF is_full(ThrCfg, pool) THEN Goto(t, "cl_size") ELSE Return(t, TRUE)
    /\ UNCHANGED <<pool, lock, last, Others>>

\* cleanup_low_priority: the size read
CleanupSize(t) ==
    /\ thr[t].pc = "cl_size"
    /\ CanRead("transactions")
    /\ IF mp_size(pool) <= (ThrCfg.max_size * 9) \div 10
       THEN Return(t, TRUE)
       ELSE thr' = [thr EXCEPT ![t].pc = "cl_priority_queue",
                               ![t].to_remove =
                                   mp_size(pool) - (ThrCfg.max_size * 9) \div 10]
    /\ UNCHANGED <<pool, lock, last, Others>>

\* cleanup_low_priority: the priority_queue write lock, kept over the loop
CleanupLockPriorityQueue(t) ==
    /\ thr[t].pc = "cl_priority_queue"
    /\ CanWrite("priority_queue")
    /\ lock' = WriteLocked("priority_queue", t)
    /\ thr' = [thr EXCEPT ![t].pc = IF pool.priority_queue = {} THEN "cl_end"
                                    ELSE "cl_transactions",
                          ![t].popped = PopAll(pool.priority_queue),
                          ![t].removed = 0]
    /\ UNCHANGED <<pool, last, Others>>

\* cleanup_low_priority calls remove_transaction: its write locks
CleanupLockTransactions(t) ==
    /\ thr[t].op = "add"
    /\ TakeWrite(t, "cl_transactions", "transactions", "cl_by_sender")

CleanupLockBySender(t) ==
    /\ thr[t].op = "add"
    /\ TakeWrite(t, "cl_by_sender", "by_sender", "cl_tx_hashes")

\* cleanup_low_priority: remove_transaction of the popped entry returns; the
\* loop goes on while removed_count < to_remove
CleanupRemove(t) ==
    /\ thr[t].pc = "cl_tx_hashes"
    /\ CanWrite("tx_hashes")
    /\ pool' = [remove_transaction(pool, Head(thr[t].popped).transaction.id).st
                  EXCEPT !.priority_queue = @ \ {Head(thr[t].popped)}]
    /\ lock' = [Released(t) EXCEPT !["priority_queue"].writer = t]
    /\ thr' = [thr EXCEPT
                 ![t].popped = Tail(@),
                 ![t].removed = @ + 1,
                 ![t].pc = IF Tail(thr[t].popped) # <<>>
                              /\ thr[t].removed + 1 < thr[t].to_remove
                           THEN "cl_transactions" ELSE "cl_end"]
    /\ UNCHANGED <<last, Others>>

\* cleanup_low_priority returns and add_transaction returns Ok(true)
CleanupEnd(t) ==
    /\ thr[t].pc = "cl_end"
    /\ lock' = Released(t)
    /\ thr' = [thr EXCEPT ![t].pc = "done", ![t].ret = TRUE, ![t].popped = <<>>]
    /\ UNCHANGED <<pool, last, Others>>

\* remove_transaction: its write locks, in the order taken
RemoveLockTransactions(t) ==
    /\ thr[t].op = "remove"
    /\ TakeWrite(t, "rm_transactions", "transactions", "rm_by_sender")

RemoveLockBySender(t) ==
    /\ thr[t].op = "remove"
    /\ TakeWrite(t, "rm_by_sender", "by_sender", "rm_tx_hashes")

\* remove_transaction: with the last lock the transaction leaves the indices
RemoveApply(t) ==
    /\ thr[t].pc = "rm_tx_hashes"
    /\ CanWrite("tx_hashes")
    /\ pool' = remove_transaction(pool, thr[t].arg).st
    /\ lock' = Released(t)
    /\ Return(t, remove_transaction(pool, thr[t].arg).out)
    /\ UNCHANGED <<last, Others>>

\* get_next_batch: the transactions read lock, kept over the call
BatchLockTransactions(t) ==
    /\ thr[t].pc = "bt_transactions"
    /\ CanRead("transactions")
    /\ lock' = ReadLocked("transactions", t)
    /\ Goto(t, "bt_priority_queue")
    /\ UNCHANGED <<pool, last, Others>>

\* get_next_batch: with the priority_queue write lock the batch is built
BatchApply(t) ==
    /\ thr[t].pc = "bt_priority_queue"
    /\ CanWrite("priority_queue")
    /\ pool' = get_next_batch(pool, thr[t].arg[1], thr[t].arg[2]).st
    /\ lock' = Released(t)
    /\ Return(t, get_next_batch(pool, thr[t].arg[1], thr[t].arg[2]).out)
    /\ UNCHANGED <<last, Others>>

\* clear: its write locks, in the order taken
ClearLockTransactions(t) ==
    /\ thr[t].op = "clear"
    /\ TakeWrite(t, "clr_transactions", "transactions", "clr_priority_queue")

ClearLockPriorityQueue(t) ==
    /\ thr[t].op = "clear"
    /\ TakeWrite(t, "clr_priority_queue", "priority_queue", "clr_by_sender")

ClearLockBySender(t) ==
    /\ thr[t].op = "clear"
    /\ TakeWrite(t, "clr_by_sender", "by_sender", "clr_tx_hashes")

\* clear: with the last lock every index is emptied
ClearApply(t) ==
    /\ thr[t].pc = "clr_tx_hashes"
    /\ CanWrite("tx_hashes")
    /\ pool' = clear(pool)
    /\ lock' = Released(t)
    /\ Return(t, TRUE)
    /\ UNCHANGED <<last, Others>>

\* one step of thread t
Step(t) ==
    \/ Call(t)
    \/ AddValidate(t) \/ AddDuplicate(t) \/ AddCapacity(t) \/ AddCounter(t)
    \/ AddLockTransactions(t) \/ AddLockPriorityQueue(t) \/ AddLockBySender(t)
    \/ AddInsert(t) \/ AddIsFull(t)
    \/ CleanupSize(t) \/ CleanupLockPriorityQueue(t)
    \/ CleanupLockTransactions(t) \/ CleanupLockBySender(t)
    \/ CleanupRemove(t) \/ CleanupEnd(t)
    \/ RemoveLockTransactions(t) \/ RemoveLockBySender(t) \/ RemoveApply(t)
    \/ BatchLockTransactions(t) \/ BatchApply(t)
    \/ ClearLockTransactions(t) \/ ClearLockPriorityQueue(t)
    \/ ClearLockBySender(t) \/ ClearApply(t)

NextThreads == \E t \in Threads : Step(t)

SpecThreads == InitThreads /\ [][NextThreads]_vars

\* the stored transactions of sender a in the shared pool
ThrStoredOf(a) == {id \in DOMAIN pool.transactions : pool.transactions[id].from = a}

\* no thread is inside a call
Quiescent == \A t \in Threads : thr[t].pc \in {"idle", "done"}

\* the returns of add(x) then add(y), one at a time, on the pool mp
SequentialAdds(mp, x, y) ==
    LET first == add_transaction(ThrCfg, mp, x)
    IN <<first.out, add_transaction(ThrCfg, first.st, y).out>>

\* C15: concurrent calls of add_transaction behave as if executed one at a
\* time: when two threads have both returned from add_transaction, their
\* returns are those of one of the two sequential orders on the pool they
\* started from (so two adds of the same transaction are not both true), and
\* between calls no sender has more than max_per_account stored transactions.
C15_ConcurrentAddsSequential ==
    /\ \A t, u \in Threads :
         (/\ t # u
          /\ thr[t].pc = "done" /\ thr[t].op = "add"
          /\ thr[u].pc = "done" /\ thr[u].op = "add")
         => \/ SequentialAdds(last, thr[t].arg, thr[u].arg) = <<thr[t].ret, thr[u].ret>>
            \/ SequentialAdds(last, thr[u].arg, thr[t].arg) = <<thr[u].ret, thr[t].ret>>
    /\ Quiescent =>
         \A a \in {tx.from : tx \in ThrTxs} :
            Cardinality(ThrStoredOf(a)) <= ThrCfg.max_per_account

\* thread t is inside a call
Running(t) == thr[t].pc \notin {"idle", "done"}

\* C16: no interleaving of mempool calls reaches a state in which threads
\* wait for each other's locks forever: whenever some thread is inside a call,
\* some thread inside a call can take its next step.
C16_NoLockDeadlock ==
    (\E t \in Threads : Running(t))
    => \E t \in Threads : Running(t) /\ ENABLED Step(t)

(***************************************************************************)
(* SpecStart: one validator is constructed with ConsensusEngine::new over  *)
(* a validator set of zero to four members and started; its interval ticks *)
(* and its channel hands it consensus messages.  orch holds its            *)
(* configuration and its ConsensusEngine, sent what it broadcast.          *)
(***************************************************************************)
\* the validator sets a node may be configured with: the first k validators
StartValidatorSets == {SubSeq(validator_set, 1, k) : k \in 0..Len(validator_set)}

StartCfg(vs) == [ConsensusConfig("v1", TRUE) EXCEPT !.validator_set = vs]

\* a valid block of another proposer for height 1, view 0, round 0
StartBlock ==
    create_block(ConsensusConfig("v2", TRUE), ConsensusEngineNew(0 :> Genesis, MempoolNew),
                 <<Tx1>>, 1, 0, 0).st

\* the messages the channel may hand to the node
StartMessages ==
    {Propose(StartBlock, 0, 0)}
    \cup {Vote(BlockHash(StartBlock), t, 0, 0, n) :
            t \in {"Prepare", "Commit"}, n \in {"v1", "v2", "v3"}}

\* ConsensusEngine::new returns Ok for every configuration
InitStart ==
    /\ \E vs \in StartValidatorSets, mempool \in Pools :
         orch = [cfg |-> StartCfg(vs),
                 o |-> ConsensusEngineNew(0 :> Genesis, mempool),
                 started |-> FALSE]
    /\ sent = {}
    /\ inbox = 0 /\ pool = 0 /\ last = 0 /\ thr = 0 /\ lock = 0
    /\ engine = 0 /\ calls = 0 /\ nodes = 0 /\ net = 0 /\ rcvd = 0
    /\ pair = 0 /\ todo = 0

StartOthers == <<engine, calls, nodes, net, rcvd, pair, todo, inbox, pool, last, thr, lock>>

\* ConsensusEngine::start of a validator: the receiver is taken, the message
\* task is spawned and the consensus loop begins
Start ==
    /\ ~orch.started
    /\ orch.cfg.is_validator
    /\ orch' = [orch EXCEPT !.started = TRUE]
    /\ UNCHANGED <<sent, StartOthers>>

\* one iteration of start_consensus_loop
StartTick ==
    /\ orch.started
    /\ \E elapsed \in BOOLEAN, past \in BOOLEAN :
         LET r == consensus_loop_tick(orch.cfg, orch.o, elapsed, past)
         IN /\ orch' = [orch EXCEPT !.o = r.st]
            /\ sent' = sent \cup Range(r.out)
    /\ UNCHANGED StartOthers

\* process_messages takes a message from the channel
StartReceive ==
    /\ orch.started
    /\ \E m \in StartMessages :
         LET r == handle_consensus_message(orch.cfg, orch.o, m)
         IN /\ orch' = [orch EXCEPT !.o = r.st]
            /\ sent' = sent \cup Range(r.out)
    /\ UNCHANGED StartOthers

NextStart == Start \/ StartTick \/ StartReceive

SpecStart == InitStart /\ [][NextStart]_vars

\* C22: the orchestrator refuses to start when the validator set has fewer
\* than 4 members: such a node is never started and never sends a proposal
\* or a vote.
C22_RefusesSmallValidatorSet ==
    Len(orch.cfg.validator_set) < 4 =>
      /\ ~orch.started
      /\ \A m \in sent : m.type \notin {"Propose", "Vote"}

\* the blocks proposed to the node
StartProposed == {m.block : m \in {x \in StartMessages : x.type = "Propose"}}

\* C26: a Propose for the current view whose block proposer is not
\* validator_set[view mod N] never makes the validator emit a Prepare vote
\* or record the block: every block in pending_blocks, and every proposed
\* block the node has sent a Prepare vote for, was proposed by the primary
\* of its view (for a node whose validator set has the four members BFT
\* needs).
C26_NonPrimaryProposeIgnored ==
    is_bft_capable(orch.cfg.validator_set) =>
      /\ \A h \in DOMAIN orch.o.pending_blocks :
           orch.o.pending_blocks[h].proposer
             = get_leader(orch.cfg, orch.o.pending_blocks[h].view)
      /\ \A m \in sent : \A B \in StartProposed :
           (m.type = "Vote" /\ m.vote_type = "Prepare" /\ m.block_hash = BlockHash(B))
             => B.proposer = get_leader(orch.cfg, m.view)

(***************************************************************************)
(* SpecElection: the primary of a view and the thresholds, as              *)
(* LeaderElection, PbftEngine and ViewChangeManager compute them over      *)
(* validator sets of zero to MaxElectionSize members.  last holds the      *)
(* validator set and what the last call returned.                          *)
(***************************************************************************)
ElectionValidators ==
    validator_set \o <<"v5", "v6", "v7", "v8", "v9", "v10", "v11", "v12", "v13">>

ElectionSets ==
    {SubSeq(ElectionValidators, 1, k) :
       k \in {j \in 0..MaxElectionSize : j <= Len(ElectionValidators)}}

ElectionCfg(vs, id) == [ConsensusConfig(id, TRUE) EXCEPT !.validator_set = vs]

\* LeaderElection::new
InitElection ==
    /\ \E vs \in ElectionSets :
         last = [validator_set |-> vs, op |-> "new", node_id |-> "none", view |-> 0,
                 ret |-> 0]
    /\ orch = 0 /\ sent = 0 /\ inbox = 0 /\ pool = 0 /\ thr = 0 /\ lock = 0
    /\ engine = 0 /\ calls = 0 /\ nodes = 0 /\ net = 0 /\ rcvd = 0
    /\ pair = 0 /\ todo = 0

ElectionOthers == <<engine, calls, nodes, net, rcvd, pair, todo, orch, inbox, sent, pool, thr, lock>>

\* the primary of view and of the view one cycle later, asked of the three
\* components configured with the same validator set
Primary ==
    /\ \E view \in 0..MaxElectionView,
          id \in {"v1", "v2", "v4", Outsider} :
         LET cfg == ElectionCfg(last.validator_set, id)
         IN last' = [last EXCEPT
                       !.op = "primary", !.node_id = id, !.view = view,
                       !.ret = [get_leader |-> get_leader(cfg, view),
                                get_leader_next_cycle |->
                                    get_leader(cfg, view + Len(cfg.validator_set)),
                                is_primary |-> is_primary(cfg, id, view),
                                is_new_primary |-> is_new_primary(cfg, view)]]
    /\ UNCHANGED ElectionOthers

\* byzantine_threshold, max_byzantine_faults and is_bft_capable of the
\* LeaderElection, and byzantine_threshold of the PbftEngine and of the
\* ViewChangeManager (one expression in both)
Thresholds ==
    /\ last' = [last EXCEPT
                  !.op = "thresholds", !.node_id = "none", !.view = 0,
                  !.ret = [byzantine_threshold |->
                               le_byzantine_threshold(last.validator_set),
                           engine_threshold |->
                               byzantine_threshold(ElectionCfg(last.validator_set, "v1")),
                           max_byzantine_faults |->
                               max_byzantine_faults(last.validator_set),
                           is_bft_capable |-> is_bft_capable(last.validator_set)]]
    /\ UNCHANGED ElectionOthers

NextElection == Primary \/ Thresholds

SpecElection == InitElection /\ [][NextElection]_vars

\* C23: for every view v and every non-empty validator set of size N the
\* primary is validator_set[v mod N], so primary(v + N) = primary(v), and
\* get_leader, is_primary and is_new_primary designate that same validator.
C23_PrimaryIsRoundRobin ==
    (last.op = "primary" /\ Len(last.validator_set) > 0) =>
      LET N == Len(last.validator_set)
          primary == last.validator_set[(last.view % N) + 1]
      IN /\ last.ret.get_leader = primary
         /\ last.ret.get_leader_next_cycle = primary
         /\ last.ret.is_primary = (last.node_id = primary)
         /\ last.ret.is_new_primary = (last.node_id = primary)

\* the view has wrapped around a set of four and its primary was asked for
C23_Witness ==
    /\ last.op = "primary"
    /\ Len(last.validator_set) = 4
    /\ last.view = 5
    /\ last.node_id = "v2"
    /\ last.ret.get_leader = "v2"
    /\ last.ret.is_primary /\ last.ret.is_new_primary

\* C24: for every validator-set size N = 3f+1 with f >= 1,
\* byzantine_threshold() is 2f+1 and max_byzantine_faults() is f; for N = 4
\* they are 3 and 1.
C24_ThresholdsOfThreeFPlusOne ==
    last.op = "thresholds" =>
      /\ \A f \in 1..MaxElectionSize :
           Len(last.validator_set) = 3 * f + 1 =>
             /\ last.ret.byzantine_threshold = 2 * f + 1
             /\ last.ret.max_byzantine_faults = f
      /\ Len(last.validator_set) = 4 =>
           (last.ret.byzantine_threshold = 3 /\ last.ret.max_byzantine_faults = 1)

\* the thresholds of a set of seven validators were asked for
C24_Witness ==
    /\ last.op = "thresholds"
    /\ Len(last.validator_set) = 7
    /\ last.ret.byzantine_threshold = 5
    /\ last.ret.max_byzantine_faults = 2

(***************************************************************************)
(* SpecPropose: one PbftEngine, the validator v3 in view 0, receives       *)
(* proposals of the primary v1 and of v2 for sequence 0 and votes for the  *)
(* primary's blocks; last holds the message of the last call and what      *)
(* process_message returned for it.                                        *)
(***************************************************************************)
ProposeMessages ==
    {Propose(b, 0, 0) : b \in Blocks}
    \cup {Vote(BlockHash(b), t, 0, 0, n) :
            b \in {x \in Blocks : is_primary(EngineCfg, x.proposer, 0)},
            t \in {"Prepare", "Commit"}, n \in Validators \ {EngineCfg.node_id}}

InitPropose ==
    /\ engine = PbftEngineNew
    /\ last = [message |-> "none", out |-> <<>>, ok |-> TRUE]
    /\ calls = 0 /\ nodes = 0 /\ net = 0 /\ rcvd = 0 /\ pair = 0 /\ todo = 0
    /\ orch = 0 /\ inbox = 0 /\ sent = 0 /\ pool = 0 /\ thr = 0 /\ lock = 0

\* process_message is called with m
ProposeDeliver ==
    /\ \E m \in ProposeMessages :
         LET r == process_message(EngineCfg, engine, m)
         IN /\ engine' = r.st
            /\ last' = [message |-> m, out |-> r.out, ok |-> r.ok]
    /\ UNCHANGED <<calls, nodes, net, rcvd, pair, todo, orch, inbox, sent, pool, thr, lock>>

NextPropose == ProposeDeliver

SpecPropose == InitPropose /\ [][NextPropose]_vars

\* the engine e holds a log entry at the slot of the Propose m that pins a
\* block hash other than that of m's block
Equivocates(cfg, e, m) ==
    /\ m.type = "Propose"
    /\ m.view = e.current_view
    /\ is_primary(cfg, m.block.proposer, m.view)
    /\ <<m.view, m.round>> \in DOMAIN e.message_log
    /\ e.message_log[<<m.view, m.round>>].block_hash # BlockHash(m.block)

\* C25: a Propose from the primary for the current view at a (view,
\* sequence) whose log entry already pins a different block hash is rejected
\* with an error: no Prepare vote is emitted for the second hash and the
\* log entry (pinned hash and stored messages) is left unchanged.
C25_EquivocationRejected ==
    [][Equivocates(EngineCfg, engine, last'.message) =>
         /\ ~last'.ok
         /\ last'.out = <<>>
         /\ engine'.message_log = engine.message_log]_vars

(***************************************************************************)
(* SpecManager: the ViewChangeManager of validator v2 (the primary of view *)
(* 1) on which trigger_view_change, handle_view_change, handle_new_view    *)
(* and update_timeout are called with arbitrary arguments.                 *)
(***************************************************************************)
ManagerCfg == ConsensusConfig("v2", TRUE)

ManagerViews == 0..MaxViewChange

\* the senders of view-change messages: two validators (with the manager's
\* own message a quorum) and an outsider
ManagerSenders == {"v1", "v3", Outsider}

\* three view-change messages for view v from three validators
GoodViewChanges(v) == <<ViewChange(v, "v1"), ViewChange(v, "v3"), ViewChange(v, "v4")>>

\* what a NewView for view v may embed: nothing, one message short of a
\* quorum, a quorum, a quorum and one more, one validator's message three
\* times, and a quorum spoiled by a message for another view, by the message
\* of an outsider, or by a vote
EmbeddedLists(v) ==
    {<<>>,
     SubSeq(GoodViewChanges(v), 1, 2),
     GoodViewChanges(v),
     Append(GoodViewChanges(v), ViewChange(v, "v2")),
     <<ViewChange(v, "v1"), ViewChange(v, "v1"), ViewChange(v, "v1")>>,
     [GoodViewChanges(v) EXCEPT ![2] = ViewChange(v + 1, "v3")],
     [GoodViewChanges(v) EXCEPT ![3] = ViewChange(v, Outsider)],
     Append(GoodViewChanges(v), Vote(BlockHash(Block("v1", 1)), "Prepare", 0, v, "v2"))}

ManagerNewViews ==
    UNION {{NewView(v, msgs) : msgs \in EmbeddedLists(v)} : v \in ManagerViews}

InitManager ==
    /\ engine = ViewChangeManagerNew
    /\ calls = 0 /\ nodes = 0 /\ net = 0 /\ rcvd = 0 /\ pair = 0 /\ todo = 0
    /\ orch = 0 /\ inbox = 0 /\ sent = 0 /\ pool = 0 /\ last = 0 /\ thr = 0 /\ lock = 0

ManagerOthers == <<calls, nodes, net, rcvd, pair, todo, orch, inbox, sent, pool, last, thr, lock>>

ManagerTrigger ==
    /\ \E new_view \in ManagerViews :
         engine' = vcm_trigger_view_change(ManagerCfg, engine, new_view).st
    /\ UNCHANGED ManagerOthers

ManagerViewChange ==
    /\ \E new_view \in ManagerViews, validator_id \in ManagerSenders :
         engine' = vcm_handle_view_change(ManagerCfg, engine, new_view, validator_id).st
    /\ UNCHANGED ManagerOthers

ManagerNewView ==
    /\ \E m \in ManagerNewViews :
         engine' = vcm_handle_new_view(ManagerCfg, engine, m.view,
                                       m.view_change_messages).st
    /\ UNCHANGED ManagerOthers

ManagerUpdateTimeout ==
    /\ engine' = update_timeout(engine)
    /\ UNCHANGED ManagerOthers

NextManager ==
    \/ ManagerTrigger
    \/ ManagerViewChange
    \/ ManagerNewView
    \/ ManagerUpdateTimeout

SpecManager == InitManager /\ [][NextManager]_vars

\* the NewView m is one that the manager vcm must install: its view is
\* above current_view, it embeds at least Q messages, and each of them is a
\* ViewChange naming that view from a member of the validator set
MustInstall(vcm, m) ==
    /\ m.view > vcm.current_view
    /\ Len(m.view_change_messages) >= Quorum
    /\ \A i \in DOMAIN m.view_change_messages :
         /\ m.view_change_messages[i].type = "ViewChange"
         /\ m.view_change_messages[i].new_view = m.view
         /\ m.view_change_messages[i].validator_id \in Validators

\* C30: handle_new_view installs a view exactly when view > current_view,
\* the message embeds at least Q ViewChange messages, and every embedded
\* message is a ViewChange naming that view from a member of the validator
\* set; on installation current_view = view, state = Normal and the timeout
\* duration is the base value; otherwise current_view, state and the stored
\* NewView messages are unchanged.
C30_NewViewInstalledExactlyWhenValid ==
    [][\A m \in ManagerNewViews :
         engine' = vcm_handle_new_view(ManagerCfg, engine, m.view,
                                       m.view_change_messages).st
         => IF MustInstall(engine, m)
            THEN /\ engine'.current_view = m.view
                 /\ engine'.state = "Normal"
                 /\ engine'.timeout_duration = base_timeout_ms
            ELSE /\ engine'.current_view = engine.current_view
                 /\ engine'.state = engine.state
                 /\ engine'.new_view_messages = engine.new_view_messages]_vars

\* a manager that had stored view-change messages for view 1 has installed
\* view 1 from a NewView that embeds three view-change messages
C30_Witness ==
    /\ engine.current_view = 1
    /\ engine.state = "Normal"
    /\ 1 \in DOMAIN engine.new_view_messages
    /\ Len(engine.new_view_messages[1].view_change_messages) = 3
    /\ 1 \in DOMAIN engine.view_change_messages
    /\ engine.timeout_duration = base_timeout_ms

(***************************************************************************)
(* SpecView: the ConsensusEngine of validator v2 (the primary of view 1)   *)
(* handles ViewChange and NewView messages from its channel, and its       *)
(* consensus loop calls trigger_view_change.                               *)
(***************************************************************************)
ViewCfg == ConsensusConfig("v2", TRUE)

ViewMessages ==
    {ViewChange(v, n) : v \in ManagerViews, n \in ManagerSenders}
    \cup ManagerNewViews

InitView ==
    /\ orch = ConsensusEngineNew(0 :> Genesis, MempoolNew)
    /\ engine = 0 /\ calls = 0 /\ nodes = 0 /\ net = 0 /\ rcvd = 0 /\ pair = 0
    /\ todo = 0 /\ inbox = 0 /\ sent = 0 /\ pool = 0 /\ last = 0 /\ thr = 0
    /\ lock = 0

ViewOthers == <<engine, calls, nodes, net, rcvd, pair, todo, inbox, sent, pool, last, thr, lock>>

\* process_messages takes a ViewChange or a NewView from the channel
ViewReceive ==
    /\ \E m \in ViewMessages :
         orch' = handle_consensus_message(ViewCfg, orch, m).st
    /\ UNCHANGED ViewOthers

\* the timeout branch of start_consensus_loop: the call of
\* trigger_view_change that follows should_trigger_view_change() = true.
\* ConsensusEngine::new leaves view_timeout at None and nothing arms it, so
\* the action is the function as written, called on the engine's state.
ViewTrigger ==
    /\ orch.current_view < MaxViewChange
    /\ orch' = trigger_view_change(ViewCfg, orch).st
    /\ UNCHANGED ViewOthers

NextView == ViewReceive \/ ViewTrigger

SpecView == InitView /\ [][NextView]_vars

\* C28: when the ViewChangeManager installs a new view v (a NewView for v
\* is accepted, or sent by the new primary), the orchestrator's state
\* returns to Idle and its current_view equals v.
C28_InstalledViewReachesOrchestrator ==
    [][orch'.view_change_manager.current_view # orch.view_change_manager.current_view
         => /\ orch'.state = "Idle"
            /\ orch'.current_view = orch'.view_change_manager.current_view]_vars

\* the manager vcm holds Q view-change messages for view v, stored from
\* the validators or embedded in the NewView it accepted
Backed(vcm, v) ==
    \/ /\ v \in DOMAIN vcm.view_change_messages
       /\ Cardinality(DOMAIN vcm.view_change_messages[v]) >= Quorum
    \/ /\ v \in DOMAIN vcm.new_view_messages
       /\ Len(vcm.new_view_messages[v].view_change_messages) >= Quorum

StateEdges ==
    {<<"Normal", "ViewChanging">>,
     <<"ViewChanging", "NewViewReceived">>,
     <<"NewViewReceived", "Normal">>}

\* C31: the ViewChangeManager state only moves along the edges Normal to
\* ViewChanging, ViewChanging to NewViewReceived and NewViewReceived to
\* Normal, under any sequence of trigger_view_change, handle_view_change and
\* handle_new_view calls.
C31_StateFollowsEdges ==
    [][engine'.state # engine.state
         => <<engine.state, engine'.state>> \in StateEdges]_vars

\* the duration after one more failed view: the duration times the
\* multiplier 1.5, capped at the maximum
NextTimeout(d) ==
    IF (d * 3) \div 2 < max_timeout_ms THEN (d * 3) \div 2 ELSE max_timeout_ms

\* C32: the view timeout starts at base_timeout_ms, is multiplied by
\* timeout_multiplier (capped at max_timeout_ms) by every view change
\* triggered with no installed view in between, never exceeds
\* max_timeout_ms, and returns to base_timeout_ms when a view is installed.
C32_TimeoutBacksOff ==
    [][/\ engine'.timeout_duration <= max_timeout_ms
       /\ engine'.current_view # engine.current_view
            => engine'.timeout_duration = base_timeout_ms
       /\ \A new_view \in ManagerViews :
            LET r == vcm_trigger_view_change(ManagerCfg, engine, new_view)
            IN (r.ok /\ engine' = r.st /\ engine' # engine)
                 => engine'.timeout_duration = NextTimeout(engine.timeout_duration)]_vars

(***************************************************************************)
(* SpecMembers: the PbftEngine and the ViewChangeManager of one node,      *)
(* which is validator v2 or a node, in validator or observer mode, whose   *)
(* id is not in the validator set (node.rs takes node_id and the mode from *)
(* the command line and the validator set from parse_validator_set).  The  *)
(* engine processes messages signed by                                     *)
(* validators and by an outsider; the manager is triggered and handles     *)
(* view-change messages.                                                   *)
(***************************************************************************)
MembersCfgs ==
    {ConsensusConfig("v2", TRUE), ConsensusConfig(Outsider, TRUE),
     ConsensusConfig(Outsider, FALSE)}

MembersSenders == {"v1", "v3", Outsider}

MembersBlocks == {Block("v1", 1), Block(Outsider, 1)}

MembersMessages ==
    {Propose(b, 0, 0) : b \in MembersBlocks}
    \cup {Vote(BlockHash(b), t, 0, 0, n) :
            b \in MembersBlocks, t \in {"Prepare", "Commit"}, n \in MembersSenders}
    \cup {ViewChange(1, n) : n \in MembersSenders}

InitMembers ==
    /\ \E cfg \in MembersCfgs :
         engine = [cfg |-> cfg, pbft |-> PbftEngineNew, vcm |-> ViewChangeManagerNew]
    /\ calls = 0 /\ nodes = 0 /\ net = 0 /\ rcvd = 0 /\ pair = 0 /\ todo = 0
    /\ orch = 0 /\ inbox = 0 /\ sent = 0 /\ pool = 0 /\ last = 0 /\ thr = 0 /\ lock = 0

MembersOthers == <<calls, nodes, net, rcvd, pair, todo, orch, inbox, sent, pool, last, thr, lock>>

\* PbftEngine::process_message
MembersProcess ==
    /\ \E m \in MembersMessages :
         engine' = [engine EXCEPT !.pbft = process_message(engine.cfg, @, m).st]
    /\ UNCHANGED MembersOthers

\* ViewChangeManager::trigger_view_change
MembersTrigger ==
    /\ \E new_view \in 1..MaxViewChange :
         engine' = [engine EXCEPT !.vcm =
                      vcm_trigger_view_change(engine.cfg, @, new_view).st]
    /\ UNCHANGED MembersOthers

\* ViewChangeManager::handle_view_change
MembersViewChange ==
    /\ \E new_view \in 1..MaxViewChange, validator_id \in MembersSenders :
         engine' = [engine EXCEPT !.vcm =
                      vcm_handle_view_change(engine.cfg, @, new_view, validator_id).st]
    /\ UNCHANGED MembersOthers

NextMembers == MembersProcess \/ MembersTrigger \/ MembersViewChange

SpecMembers == InitMembers /\ [][NextMembers]_vars

\* C33: every validator id that keys a stored message (in PbftEngine log
\* entries and view-change votes, and in the ViewChangeManager view-change
\* message map, including the node's own id stored by trigger_view_change)
\* is a member of the configured validator set.
C33_StoredIdsAreValidators ==
    LET members == Range(engine.cfg.validator_set) IN
    /\ \A k \in DOMAIN engine.pbft.message_log :
         DOMAIN engine.pbft.message_log[k].messages \subseteq members
    /\ \A v \in DOMAIN engine.pbft.view_change_votes :
         engine.pbft.view_change_votes[v] \subseteq members
    /\ \A v \in DOMAIN engine.vcm.view_change_messages :
         DOMAIN engine.vcm.view_change_messages[v] \subseteq members

(***************************************************************************)
(* SpecCommit: the ConsensusEngine of validator v3 (primary of no view in  *)
(* the run) receives Propose messages and votes from its channel; the      *)
(* proposed blocks carry the next height or another one, and the store may *)
(* fail when a block is committed.                                         *)
(***************************************************************************)
CommitCfg == ConsensusConfig("v3", TRUE)

\* blocks that pass Block::verify: the block for height 1 and the same
\* block with a header that says height 3
CommitBlocks == {StartBlock, [StartBlock EXCEPT !.height = 3]}

CommitRounds == 0..MaxCommitRound

\* the blocks proposed in round r: both in round 0, the second afterwards
CommitBlocksOf(r) == IF r = 0 THEN CommitBlocks ELSE {[StartBlock EXCEPT !.height = 3]}

\* a proposal, a Prepare vote and a quorum of Commit votes for every block
\* of every round
CommitMessages ==
    UNION {{Propose(b, r, 0) : b \in CommitBlocksOf(r)}
           \cup {Vote(BlockHash(b), "Prepare", r, 0, "v1") : b \in CommitBlocksOf(r)}
           \cup {Vote(BlockHash(b), "Commit", r, 0, n) :
                   b \in CommitBlocksOf(r), n \in {"v1", "v2", "v4"}}
           : r \in CommitRounds}

\* whether handling message reaches the call of commit_block: a Commit vote
\* of a validator for the current view and round that brings the count of
\* Commit votes for its block to the threshold
CommitReached(cfg, o, message) ==
    /\ message.type = "Vote"
    /\ message.vote_type = "Commit"
    /\ message.view = o.current_view
    /\ message.round = o.current_round
    /\ message.validator_id \in Range(cfg.validator_set)
    /\ LET vote_key == <<message.view, message.round, message.block_hash>>
           old == IF vote_key \in DOMAIN o.votes THEN o.votes[vote_key] ELSE EmptyMap
       IN Cardinality({n \in DOMAIN old : old[n].vote_type = "Commit"}
                      \cup {message.validator_id})
            >= ((Len(cfg.validator_set) * 2) \div 3) + 1

\* last: whether the last message handled reached commit_block, and then
\* the hash it was called with, the result of the store and its own result
NoCommit == [committing |-> FALSE, block_hash |-> "none", stored |-> "Ok", ok |-> TRUE]

InitCommit ==
    /\ \E mempool \in Pools : orch = ConsensusEngineNew(0 :> Genesis, mempool)
    /\ last = NoCommit
    /\ engine = 0 /\ calls = 0 /\ nodes = 0 /\ net = 0 /\ rcvd = 0 /\ pair = 0
    /\ todo = 0 /\ inbox = 0 /\ sent = 0 /\ pool = 0 /\ thr = 0 /\ lock = 0

CommitOthers == <<engine, calls, nodes, net, rcvd, pair, todo, inbox, sent, pool, thr, lock>>

\* process_messages takes a message from the channel
CommitReceive ==
    /\ \E m \in CommitMessages :
       \E stored \in IF CommitReached(CommitCfg, orch, m) THEN StoreResults ELSE {"Ok"} :
         LET r == handle_consensus_message_storing(CommitCfg, orch, m, stored)
         IN /\ orch' = r.st
            /\ last' = IF CommitReached(CommitCfg, orch, m)
                       THEN [committing |-> TRUE, block_hash |-> m.block_hash,
                             stored |-> stored, ok |-> r.ok]
                       ELSE NoCommit
    /\ UNCHANGED CommitOthers

NextCommit == CommitReceive

SpecCommit == InitCommit /\ [][NextCommit]_vars

\* C34: when commit_block succeeds for a pending block, the block is stored
\* at its height, none of its transactions remain in the mempool, its
\* pending_blocks entry is gone, current_round has increased by exactly 1
\* and state is Idle; when the block hash is not in pending_blocks or the
\* storage write fails, commit_block returns an error and current_height,
\* current_round, state, pending_blocks and the mempool are all unchanged.
C34_CommitAllOrNothing ==
    [][last'.committing =>
         LET h == last'.block_hash
             succeeds == h \in DOMAIN orch.pending_blocks /\ last'.stored = "Ok"
         IN /\ last'.ok = succeeds
            /\ IF succeeds
               THEN LET block == orch.pending_blocks[h]
                    IN /\ block.height \in DOMAIN orch'.storage
                       /\ orch'.storage[block.height] = block
                       /\ \A i \in DOMAIN block.transactions :
                            block.transactions[i].id
                              \notin DOMAIN orch'.mempool.transactions
                       /\ h \notin DOMAIN orch'.pending_blocks
                       /\ orch'.current_round = orch.current_round + 1
                       /\ orch'.state = "Idle"
               ELSE /\ orch'.current_height = orch.current_height
                    /\ orch'.current_round = orch.current_round
                    /\ orch'.state = orch.state
                    /\ orch'.pending_blocks = orch.pending_blocks
                    /\ orch'.mempool = orch.mempool]_vars

\* a commit has succeeded: the block is stored at height 1 and the mempool
\* that held its transaction is empty
C34_Witness ==
    /\ last.committing
    /\ last.ok
    /\ orch.current_round = 1
    /\ 1 \in DOMAIN orch.storage
    /\ orch.mempool.insertion_counter = 1
    /\ orch.mempool.transactions = EmptyMap

\* C36: every block the orchestrator commits has a height equal to its
\* current_height + 1 at commit time, so current_height increases by
\* exactly 1 per commit and no stored height is skipped or overwritten,
\* even when a proposed block's header carries a different height.
C36_CommitsNextHeight ==
    [][(last'.committing /\ last'.ok) =>
         /\ orch.pending_blocks[last'.block_hash].height
              = orch.current_height + 1
         /\ orch'.current_height = orch.current_height + 1
         /\ DOMAIN orch'.storage = 0..orch'.current_height
         /\ \A g \in DOMAIN orch.storage : orch'.storage[g] = orch.storage[g]]_vars

\* the validators whose ViewChange for view v the list msgs carries
ViewChangeSigners(msgs, v) ==
    {msgs[i].validator_id : i \in {j \in DOMAIN msgs :
        /\ msgs[j].type = "ViewChange"
        /\ msgs[j].new_view = v
        /\ msgs[j].validator_id \in Validators}}

\* C39: handle_new_view installs view v only if the NewView carries
\* ViewChange messages for v from at least Q distinct validators (the
\* NewView of every view installed by handle_new_view is the one stored in
\* new_view_messages).
C39_NewViewNeedsDistinctSigners ==
    \A v \in DOMAIN engine.new_view_messages :
      Cardinality(ViewChangeSigners(engine.new_view_messages[v].view_change_messages, v))
        >= Quorum

\* C40: for every validator-set size N >= 4, with Q = floor(2N/3)+1 and
\* f = floor((N-1)/3) as the code computes them, any two sets of Q
\* validators share at least f+1 members (2Q - N >= f+1).
C40_QuorumsIntersect ==
    (last.op = "thresholds" /\ Len(last.validator_set) >= 4) =>
      LET N == Len(last.validator_set)
          Q == last.ret.byzantine_threshold
          f == last.ret.max_byzantine_faults
          quorums == {A \in SUBSET Range(last.validator_set) : Cardinality(A) = Q}
      IN /\ last.ret.engine_threshold = Q
         /\ 2 * Q - N >= f + 1
         /\ \A A, B \in quorums : Cardinality(A \cap B) >= f + 1

\* the thresholds of a set of ten validators were computed: Q = 7 and f = 3,
\* where two quorums may share no more than f + 1 = 4 members
C40_Witness ==
    /\ last.op = "thresholds"
    /\ Len(last.validator_set) = 10
    /\ last.ret.byzantine_threshold = 7
    /\ last.ret.engine_threshold = 7
    /\ last.ret.max_byzantine_faults = 3

(***************************************************************************)
(* SpecRace: the ConsensusEngine of the primary v1 of view 0 after start,  *)
(* which spawned process_messages as a task of its own and runs            *)
(* start_consensus_loop.  The two tasks share the engine's fields, each    *)
(* behind a lock of its own that is taken for one read or one write.  The  *)
(* loop's task takes one step per field it reads or writes in              *)
(* should_propose_block and propose_block; the message task handles a vote *)
(* up to the threshold check in one step (one of its schedules) and then   *)
(* takes one step per field commit_block writes.                           *)
(***************************************************************************)
RaceCfg == ConsensusConfig("v1", TRUE)

\* the pool holds two transactions of one sender, of which a batch takes one
RacePool ==
    add_transaction(NodeMempoolConfig,
                    add_transaction(NodeMempoolConfig, MempoolNew, Tx1).st,
                    TxNonce7).st

\* the votes of the other validators for the blocks the primary proposed
RaceVotes ==
    {Vote(BlockHash(p.block), t, p.round, p.view, n) :
        p \in sent, t \in {"Prepare", "Commit"}, n \in {"v2", "v3", "v4"}}

NoLocals == [view |-> 0, round |-> 0, height |-> 0, transactions |-> <<>>,
             block |-> "none"]

InitRace ==
    /\ orch = [o |-> ConsensusEngineNew(0 :> Genesis, RacePool),
               tick |-> [pc |-> "wait", l |-> NoLocals],
               msg |-> [pc |-> "recv", block_hash |-> "none", block |-> "none"]]
    /\ sent = {}
    /\ engine = 0 /\ calls = 0 /\ nodes = 0 /\ net = 0 /\ rcvd = 0 /\ pair = 0
    /\ todo = 0 /\ inbox = 0 /\ pool = 0 /\ last = 0 /\ thr = 0 /\ lock = 0

RaceOthers == <<engine, calls, nodes, net, rcvd, pair, todo, inbox, pool, last, thr, lock>>

\* should_propose_block returns true (last_block_time is never advanced, so
\* the block time has elapsed): the loop enters propose_block
TickShouldPropose ==
    /\ orch.tick.pc = "wait"
    /\ should_propose_block(RaceCfg, orch.o, TRUE)
    /\ orch' = [orch EXCEPT !.tick.pc = "read_view"]
    /\ UNCHANGED <<sent, RaceOthers>>

\* propose_block reads current_view, current_round and current_height
TickReadView ==
    /\ orch.tick.pc = "read_view"
    /\ orch' = [orch EXCEPT !.tick.pc = "read_round",
                            !.tick.l.view = orch.o.current_view]
    /\ UNCHANGED <<sent, RaceOthers>>

TickReadRound ==
    /\ orch.tick.pc = "read_round"
    /\ orch' = [orch EXCEPT !.tick.pc = "read_height",
                            !.tick.l.round = orch.o.current_round]
    /\ UNCHANGED <<sent, RaceOthers>>

TickReadHeight ==
    /\ orch.tick.pc = "read_height"
    /\ orch' = [orch EXCEPT !.tick.pc = "batch",
                            !.tick.l.height = orch.o.current_height]
    /\ UNCHANGED <<sent, RaceOthers>>

\* mempool.get_next_batch; propose_block returns when the batch is empty
TickBatch ==
    /\ orch.tick.pc = "batch"
    /\ LET got == get_next_batch(orch.o.mempool, RaceCfg.max_transactions_per_block,
                                 RaceCfg.max_block_size)
       IN orch' = IF got.out = <<>>
                  THEN [orch EXCEPT !.o.mempool = got.st,
                                    !.tick = [pc |-> "wait", l |-> NoLocals]]
                  ELSE [orch EXCEPT !.o.mempool = got.st,
                                    !.tick.pc = "create",
                                    !.tick.l.transactions = got.out]
    /\ UNCHANGED <<sent, RaceOthers>>

\* create_block over the values read, and the broadcast of the proposal
TickCreate ==
    /\ orch.tick.pc = "create"
    /\ LET l == orch.tick.l
           created == create_block(RaceCfg, orch.o, l.transactions, l.height + 1,
                                   l.view, l.round)
       IN IF ~created.ok
          THEN /\ orch' = [orch EXCEPT !.tick = [pc |-> "wait", l |-> NoLocals]]
               /\ sent' = sent
          ELSE /\ orch' = [orch EXCEPT !.tick.pc = "store",
                                       !.tick.l.block = created.st]
               /\ sent' = sent \cup {Propose(created.st, l.round, l.view)}
    /\ UNCHANGED RaceOthers

\* pending_blocks.insert(block_hash, block)
TickStore ==
    /\ orch.tick.pc = "store"
    /\ orch' = [orch EXCEPT
                  !.tick.pc = "state",
                  !.o.pending_blocks =
                      Put(@, BlockHash(orch.tick.l.block), orch.tick.l.block)]
    /\ UNCHANGED <<sent, RaceOthers>>

\* state = Proposing; the iteration ends
TickState ==
    /\ orch.tick.pc = "state"
    /\ orch' = [orch EXCEPT !.o.state = "Proposing",
                            !.tick = [pc |-> "wait", l |-> NoLocals]]
    /\ UNCHANGED <<sent, RaceOthers>>

\* handle_vote_message up to the threshold check: the vote is stored; a
\* quorum of Prepare votes sends the Commit vote and sets Committing, a
\* quorum of Commit votes enters commit_block, which looks the block up
MsgVote ==
    /\ orch.msg.pc = "recv"
    /\ \E m \in RaceVotes :
         IF CommitReached(RaceCfg, orch.o, m)
         THEN LET o1 == handle_consensus_message_storing(RaceCfg, orch.o, m,
                                                         "ErrBefore").st
              IN orch' = IF m.block_hash \in DOMAIN o1.pending_blocks
                         THEN [orch EXCEPT
                                 !.o = o1,
                                 !.msg = [pc |-> "store", block_hash |-> m.block_hash,
                                          block |-> o1.pending_blocks[m.block_hash]]]
                         ELSE [orch EXCEPT !.o = o1]
         ELSE orch' = [orch EXCEPT !.o = handle_consensus_message(RaceCfg, @, m).st]
    /\ UNCHANGED <<sent, RaceOthers>>

\* commit_block: storage.store_block(&block)
MsgCommitStore ==
    /\ orch.msg.pc = "store"
    /\ orch' = [orch EXCEPT !.msg.pc = "height",
                            !.o.storage = Put(@, orch.msg.block.height, orch.msg.block)]
    /\ UNCHANGED <<sent, RaceOthers>>

\* current_height = block.header.height
MsgCommitHeight ==
    /\ orch.msg.pc = "height"
    /\ orch' = [orch EXCEPT !.msg.pc = "mempool",
                            !.o.current_height = orch.msg.block.height]
    /\ UNCHANGED <<sent, RaceOthers>>

\* the block's transactions are removed from the mempool
MsgCommitMempool ==
    /\ orch.msg.pc = "mempool"
    /\ orch' = [orch EXCEPT !.msg.pc = "pending",
                            !.o.mempool = RemoveCommitted(@, orch.msg.block.transactions)]
    /\ UNCHANGED <<sent, RaceOthers>>

\* pending_blocks.remove(&block_hash)
MsgCommitPending ==
    /\ orch.msg.pc = "pending"
    /\ orch' = [orch EXCEPT
                  !.msg.pc = "state",
                  !.o.pending_blocks = Restrict(@, DOMAIN @ \ {orch.msg.block_hash})]
    /\ UNCHANGED <<sent, RaceOthers>>

\* state = Idle
MsgCommitState ==
    /\ orch.msg.pc = "state"
    /\ orch' = [orch EXCEPT !.msg.pc = "round", !.o.state = "Idle"]
    /\ UNCHANGED <<sent, RaceOthers>>

\* current_round += 1; commit_block returns
MsgCommitRound ==
    /\ orch.msg.pc = "round"
    /\ orch' = [orch EXCEPT
                  !.msg = [pc |-> "recv", block_hash |-> "none", block |-> "none"],
                  !.o.current_round = @ + 1]
    /\ UNCHANGED <<sent, RaceOthers>>

NextRace ==
    \/ TickShouldPropose
    \/ TickReadView
    \/ TickReadRound
    \/ TickReadHeight
    \/ TickBatch
    \/ TickCreate
    \/ TickStore
    \/ TickState
    \/ MsgVote
    \/ MsgCommitStore
    \/ MsgCommitHeight
    \/ MsgCommitMempool
    \/ MsgCommitPending
    \/ MsgCommitState
    \/ MsgCommitRound

SpecRace == InitRace /\ [][NextRace]_vars

\* C37: an honest primary never broadcasts two Propose messages carrying
\* different blocks for the same (view, round), under any interleaving of
\* the proposer-tick task with the message-processing task.
C37_OneProposalPerRound ==
    \A p, q \in sent :
      (p.view = q.view /\ p.round = q.round) => p.block = q.block

====
